---------------------------- MODULE Spec2Model ----------------------------
(***************************************************************************)
(* A model of TeapotAI (src/src/teapotai.js, the TypeScript class of lines *)
(* 465-824): the document chunker, the embedding store, the similarity     *)
(* ranker, and the asynchronous operations initializeEmbeddings, rag,      *)
(* query, chat and generate.                                               *)
(*                                                                         *)
(* Representation.                                                         *)
(*  - A string is a sequence of one-character strings, so that split,      *)
(*    join, trim and template literals are computed as the code computes   *)
(*    them.                                                                *)
(*  - A vector is a record [isArray, data]; data is a sequence of          *)
(*    integers.                                                            *)
(*  - A similarity is a triple <<d, n, u>> with n > 0: the double that is  *)
(*    u units in the last place away from the double nearest to the real   *)
(*    number d / sqrt(n).  The cosine of two integer vectors is the real   *)
(*    dot / sqrt(normA * normB); the code computes                         *)
(*    dot / (Math.sqrt(normA) * Math.sqrt(normB)) in IEEE-754 doubles, and *)
(*    u is the rounding error of that computation.  Comparisons are        *)
(*    decided by integer arithmetic.                                       *)
(*  - The tokenizer and the embedding model are collaborators of the       *)
(*    class.  The tokenizer stands for a character-level one: every        *)
(*    non-whitespace character is one token, and llm.eos end-of-sequence   *)
(*    tokens are appended (1 for the T5 tokenizer of the default model,    *)
(*    0 for a tokenizer without special tokens).                           *)
(*  - Every asynchronous call is a task: a record whose pc is the await    *)
(*    it is suspended on.  One action runs a task from one await to the    *)
(*    next, as the JavaScript event loop does.                             *)
(***************************************************************************)
EXTENDS Integers, Sequences, FiniteSets, TLC

VARIABLES
  settings,            \* this.settings, fixed at construction
  llm,                 \* this.llm: the generation pipeline and its tokenizer
  embeddingModel,      \* this.embeddingModel is set
  documents,           \* this.documents: the stored chunks
  documentEmbeddings,  \* this.documentEmbeddings: [def, v]; def = FALSE is undefined
  docGen,              \* how many times this.documents has been assigned
  embGen,              \* docGen of the chunk array the stored embeddings were computed from
  tasks,               \* the asynchronous calls made so far, in call order
  probe                \* a function applied to drawn inputs: [op, ...]

vars == <<settings, llm, embeddingModel, documents, documentEmbeddings,
          docGen, embGen, tasks, probe>>

instance == <<settings, llm, embeddingModel, documents, documentEmbeddings,
              docGen, embGen, tasks>>

----------------------------------------------------------------------------
(* Bounds and program constants *)

\* const maxLength = 512 in chunkDocument
maxLength == 512

\* the number of asynchronous calls made on one instance
MaxCalls == 3

\* the longest conversation passed to chat
MaxMsgs == 3

\* the most embeddings ranked by one probe of retrieval
MaxRanked == 3

----------------------------------------------------------------------------
(* Strings *)

Min(a, b) == IF a <= b THEN a ELSE b

Rep(c, n) == [i \in 1..n |-> c]

SeqsUpTo(S, n) == UNION {[1..k -> S] : k \in 0..n}

NL == "\n"

IsWhitespace(c) == c \in {" ", "\n"}

IsTokenChar(c) == ~IsWhitespace(c)

\* the first index >= from at which the separator "\n\n" starts, or 0
FirstSeparator(text, from) ==
  LET S == {i \in from..(Len(text) - 1) : text[i] = NL /\ text[i + 1] = NL}
  IN  IF S = {} THEN 0 ELSE CHOOSE i \in S : \A j \in S : i <= j

RECURSIVE SplitFrom(_, _)
SplitFrom(text, from) ==
  LET i == FirstSeparator(text, from)
  IN  IF i = 0
      THEN <<SubSeq(text, from, Len(text))>>
      ELSE <<SubSeq(text, from, i - 1)>> \o SplitFrom(text, i + 2)

\* context.split('\n\n')
SplitParagraphs(text) == SplitFrom(text, 1)

\* the value undefined, where a text is expected
Undefined == <<"undefined">>

\* what join makes of an element: undefined gives the empty string
Rendered(part) == IF part = Undefined THEN <<>> ELSE part

RECURSIVE Join(_, _)
\* parts.join(sep)
Join(parts, sep) ==
  IF parts = <<>> THEN <<>>
  ELSE IF Len(parts) = 1 THEN Rendered(parts[1])
  ELSE Rendered(parts[1]) \o sep \o Join(Tail(parts), sep)

RECURSIVE Flatten(_)
\* the concatenation flatMap performs
Flatten(seqs) ==
  IF seqs = <<>> THEN <<>> ELSE seqs[1] \o Flatten(Tail(seqs))

\* the white space and line terminators trim() removes: tab, line feed,
\* U+000B, form feed, carriage return, space, no-break space, U+1680,
\* U+2000 to U+200A, U+2028, U+2029, U+202F, U+205F, U+3000 and U+FEFF. A
\* character from U+2000 on, which a string of this module cannot hold, is
\* written as the one-element text that names its code point
IsTrimmed(c) ==
  c \in {"\t", "\n", "", "\f", "\r", " ", " ", " ", "﻿",
         "U+2000", "U+2001", "U+2002", "U+2003", "U+2004", "U+2005", "U+2006", "U+2007",
         "U+2008", "U+2009", "U+200A", "U+2028", "U+2029", "U+202F", "U+205F", "U+3000"}

\* text.trim()
Trim(text) ==
  LET K == {i \in 1..Len(text) : ~IsTrimmed(text[i])}
  IN  IF K = {} THEN <<>>
      ELSE SubSeq(text, CHOOSE i \in K : \A j \in K : i <= j,
                        CHOOSE i \in K : \A j \in K : i >= j)

----------------------------------------------------------------------------
(* The tokenizer of the generation model *)

EOS == "</s>"

\* this.llm.tokenizer(text).input_ids
tokenizer(text) == SelectSeq(text, IsTokenChar) \o Rep(EOS, llm.eos)

IsNotSpecial(t) == t # EOS

\* this.llm.tokenizer.decode(tokens, { skip_special_tokens: true })
decode(tokens) == SelectSeq(tokens, IsNotSpecial)

----------------------------------------------------------------------------
(* The document chunker *)

\* a seeded fault: i + maxLength <= tokens.length, the window that is not
\* full is dropped
ChunkWindows_FullOnly(tokens) ==
  LET n == Len(tokens)
      k == n \div maxLength
  IN  [w \in 1..k |->
         decode(SubSeq(tokens, (w - 1) * maxLength + 1, Min(w * maxLength, n)))]

\* the loop over the windows of one long paragraph
ChunkWindows(tokens) ==
  LET n == Len(tokens)
      k == (n + maxLength - 1) \div maxLength
  IN  [w \in 1..k |->
         decode(SubSeq(tokens, (w - 1) * maxLength + 1, Min(w * maxLength, n)))]

\* the body of the loop over the paragraphs
ChunkParagraph(paragraph) ==
  LET tokens == tokenizer(paragraph)
  IN  IF Len(tokens) > maxLength THEN ChunkWindows(tokens) ELSE <<paragraph>>

\* a seeded fault: input_ids.length < maxLength, a document of exactly 512
\* tokens is split
chunkDocument_StrictBudget(context) ==
  IF ~settings.contextChunking THEN <<context>>
  ELSE IF Len(tokenizer(context)) < maxLength THEN <<context>>
  ELSE LET paragraphs == SplitParagraphs(context)
       IN  Flatten([p \in 1..Len(paragraphs) |-> ChunkParagraph(paragraphs[p])])

chunkDocument(context) ==
  IF ~settings.contextChunking THEN <<context>>
  ELSE IF Len(tokenizer(context)) <= maxLength THEN <<context>>
  ELSE LET paragraphs == SplitParagraphs(context)
       IN  Flatten([p \in 1..Len(paragraphs) |-> ChunkParagraph(paragraphs[p])])

----------------------------------------------------------------------------
(* The similarity ranker *)

Vec(v) == [isArray |-> TRUE, data |-> v]

\* a value that is not an array (undefined, null, a string, a number)
NotAnArray == [isArray |-> FALSE, data |-> <<>>]

Zero == <<0, 1, 0>>

One == <<1, 1, 0>>

RECURSIVE SumProducts(_, _, _)
\* the accumulation the for loop performs: sum of a[i] * b[i] over i <= k
SumProducts(a, b, k) ==
  IF k = 0 THEN 0 ELSE SumProducts(a, b, k - 1) + a[k] * b[k]

\* s >= t for the reals d1/sqrt(n1), d2/sqrt(n2)
RealGeq(s, t) ==
  IF s[1] >= 0
  THEN IF t[1] < 0 THEN TRUE ELSE s[1] * s[1] * t[2] >= t[1] * t[1] * s[2]
  ELSE IF t[1] >= 0 THEN FALSE ELSE s[1] * s[1] * t[2] <= t[1] * t[1] * s[2]

\* s >= t for similarities: by the reals they are near, then by their
\* distance from them
SimGeq(s, t) ==
  IF RealGeq(s, t) /\ RealGeq(t, s) THEN s[3] >= t[3] ELSE RealGeq(s, t)

\* s > t
SimGt(s, t) == ~SimGeq(t, s)

\* Math.min(Math.max(similarity, -1), 1)
Clamp(s) ==
  IF SimGt(s, One) THEN One
  ELSE IF SimGt(<<-1, 1, 0>>, s) THEN <<-1, 1, 0>>
  ELSE s

\* the squared norms of the vectors the model draws
Norms == {1, 2, 4, 5, 8}

\* <<dot, normA, normB>> with 0 < dot and normA <= normB for which
\* dot / (Math.sqrt(normA) * Math.sqrt(normB)) is one unit in the last
\* place below the double nearest to the real quotient
OneBelow ==
  {<<1, 1, 2>>, <<1, 1, 8>>, <<2, 1, 8>>, <<1, 2, 4>>, <<2, 2, 4>>,
   <<3, 2, 8>>, <<1, 4, 8>>, <<2, 4, 8>>, <<4, 4, 8>>, <<5, 4, 8>>,
   <<3, 5, 5>>, <<5, 5, 8>>, <<3, 8, 8>>, <<5, 8, 8>>, <<6, 8, 8>>}

\* the same, two units below
TwoBelow ==
  {<<1, 2, 2>>, <<2, 2, 2>>, <<1, 2, 8>>, <<2, 2, 8>>, <<4, 2, 8>>,
   <<1, 5, 5>>, <<2, 5, 5>>, <<4, 5, 5>>, <<5, 5, 5>>, <<1, 8, 8>>,
   <<2, 8, 8>>, <<4, 8, 8>>, <<7, 8, 8>>, <<8, 8, 8>>}

\* the rounding error, in units in the last place, of
\* dotProduct / (Math.sqrt(normA) * Math.sqrt(normB)) in IEEE-754 doubles,
\* for squared norms in Norms
Rounding(dotProduct, normA, normB) ==
  LET key == <<IF dotProduct < 0 THEN 0 - dotProduct ELSE dotProduct,
               Min(normA, normB), normA + normB - Min(normA, normB)>>
      below == CASE normA \in Norms /\ normB \in Norms ->
                 IF key \in TwoBelow THEN 2 ELSE IF key \in OneBelow THEN 1 ELSE 0
  IN  IF dotProduct < 0 THEN below ELSE 0 - below

\* a seeded fault: the lengths are not compared, and a missing vecB[i]
\* counts as 0
cosineSimilarity_NoLengthCheck(vecA, vecB) ==
  IF ~vecA.isArray \/ ~vecB.isArray
  THEN Zero
  ELSE LET a == vecA.data
           b == [i \in 1..Len(a) |->
                   IF i <= Len(vecB.data) THEN vecB.data[i] ELSE 0]
           dotProduct == SumProducts(a, b, Len(a))
           normA == SumProducts(a, a, Len(a))
           normB == SumProducts(b, b, Len(b))
       IN  IF normA * normB = 0 THEN Zero
           ELSE Clamp(<<dotProduct, normA * normB,
                        Rounding(dotProduct, normA, normB)>>)

\* cosineSimilarity(queryVectors, docEmbedding), computed as
\* _cosineSimilarity (lines 200-231) computes it
cosineSimilarity(vecA, vecB) ==
  IF ~vecA.isArray \/ ~vecB.isArray \/ Len(vecA.data) # Len(vecB.data)
  THEN Zero
  ELSE LET a == vecA.data
           b == vecB.data
           dotProduct == SumProducts(a, b, Len(a))
           normA == SumProducts(a, a, Len(a))
           normB == SumProducts(b, b, Len(b))
       IN  IF normA * normB = 0 THEN Zero
           ELSE Clamp(<<dotProduct, normA * normB,
                        Rounding(dotProduct, normA, normB)>>)

\* similarities.map((similarity, index) => ({ similarity, index }))
SimilarityItems(queryVectors, embeddings) ==
  [i \in 1..Len(embeddings) |->
     [similarity |-> cosineSimilarity(queryVectors, embeddings[i]), index |-> i]]

\* a seeded fault: the filter is missing
FilterByThreshold_Missing(items) == items

\* .filter(item => item.similarity >= this.settings.ragSimilarityThreshold)
FilterByThreshold(items) ==
  LET Clears(item) == SimGeq(item.similarity, settings.ragSimilarityThreshold)
  IN  SelectSeq(items, Clears)

\* a seeded fault: (a, b) => a.similarity - b.similarity, ascending order
InsertSorted_Ascending(s, item) ==
  LET K == {k \in 1..Len(s) : SimGt(s[k].similarity, item.similarity)}
      at == IF K = {} THEN Len(s) + 1 ELSE CHOOSE k \in K : \A j \in K : k <= j
  IN  SubSeq(s, 1, at - 1) \o <<item>> \o SubSeq(s, at, Len(s))

\* where a stable sort by (a, b) => b.similarity - a.similarity puts item
\* into the sorted sequence s: after every element that is not smaller
InsertSorted(s, item) ==
  LET K == {k \in 1..Len(s) : SimGt(item.similarity, s[k].similarity)}
      at == IF K = {} THEN Len(s) + 1 ELSE CHOOSE k \in K : \A j \in K : k <= j
  IN  SubSeq(s, 1, at - 1) \o <<item>> \o SubSeq(s, at, Len(s))

RECURSIVE SortDescending(_)
\* .sort((a, b) => b.similarity - a.similarity)
SortDescending(items) ==
  IF items = <<>> THEN <<>>
  ELSE InsertSorted(SortDescending(SubSeq(items, 1, Len(items) - 1)),
                    items[Len(items)])

\* .slice(0, end)
Slice(s, end) ==
  IF end >= 0 THEN SubSeq(s, 1, Min(end, Len(s)))
  ELSE SubSeq(s, 1, Len(s) + end)

\* the indices retrieval keeps, in the order it returns them
filteredIndices(queryVectors, embeddings) ==
  LET kept == Slice(SortDescending(FilterByThreshold(
                      SimilarityItems(queryVectors, embeddings))),
                    settings.ragNumResults)
  IN  [k \in 1..Len(kept) |-> kept[k].index]

\* filteredIndices.map(index => documents[index])
TopDocuments(indices, docs) ==
  [k \in 1..Len(indices) |->
     IF indices[k] <= Len(docs) THEN docs[indices[k]] ELSE Undefined]

\* retrieval once the query's embedding has arrived
Rank(queryVectors, docs, embeddings) ==
  TopDocuments(filteredIndices(queryVectors, embeddings), docs)

\* the embedding model: await this.embeddingModel(text, ...), then
\* Array.from(embedding.data)
Count(text, c) == Cardinality({i \in 1..Len(text) : text[i] = c})

Embed(text) == Vec(<<Min(Count(text, "a"), 2), Min(Count(text, "b"), 2)>>)

----------------------------------------------------------------------------
(* The coercion of an answer to the type of a schema field *)

UpperLetters ==
  <<"A", "B", "C", "D", "E", "F", "G", "H", "I", "J", "K", "L", "M",
    "N", "O", "P", "Q", "R", "S", "T", "U", "V", "W", "X", "Y", "Z">>

LowerLetters ==
  <<"a", "b", "c", "d", "e", "f", "g", "h", "i", "j", "k", "l", "m",
    "n", "o", "p", "q", "r", "s", "t", "u", "v", "w", "x", "y", "z">>

Digits == <<"0", "1", "2", "3", "4", "5", "6", "7", "8", "9">>

Range(s) == {s[i] : i \in 1..Len(s)}

\* the i flag of a regular expression: letters compare by their lower case
LowerCase(c) ==
  IF c \in Range(UpperLetters)
  THEN LowerLetters[CHOOSE k \in 1..26 : UpperLetters[k] = c]
  ELSE c

\* \w: a letter, a digit or the underscore
IsWordChar(c) ==
  c \in Range(UpperLetters) \cup Range(LowerLetters) \cup Range(Digits) \cup {"_"}

\* \b at the gap before position i (1..Len(text) + 1): a word character on
\* exactly one side
IsBoundary(text, i) ==
  LET before == i > 1 /\ IsWordChar(text[i - 1])
      after == i <= Len(text) /\ IsWordChar(text[i])
  IN  before # after

\* /\b(w1|w2|...)\b/i.test(text)
TestWholeWord(words, text) ==
  \E w \in words : \E i \in 1..(Len(text) - Len(w) + 1) :
    /\ \A k \in 1..Len(w) : LowerCase(text[i + k - 1]) = w[k]
    /\ IsBoundary(text, i)
    /\ IsBoundary(text, i + Len(w))

Affirmative == {<<"y", "e", "s">>, <<"t", "r", "u", "e">>}

Negative == {<<"n", "o">>, <<"f", "a", "l", "s", "e">>}

\* the values extract stores: null, a boolean, a number, Infinity, NaN or a
\* string. Num(whole, fraction) is the double nearest to the decimal with
\* these digits before and after the point, written without leading zeros
\* in whole and without trailing zeros in fraction
Null ==
  [kind |-> "null", b |-> FALSE, negative |-> FALSE, whole |-> <<>>,
   fraction |-> <<>>, str |-> <<>>]

Bool(b) == [Null EXCEPT !.kind = "boolean", !.b = b]

Num(whole, fraction) ==
  [Null EXCEPT !.kind = "number", !.whole = whole, !.fraction = fraction]

Infinity == [Null EXCEPT !.kind = "Infinity"]

NaN == [Null EXCEPT !.kind = "NaN"]

Str(text) == [Null EXCEPT !.kind = "string", !.str = text]

\* a seeded fault: the negative pattern is tested first
parseBoolean_NegativeFirst(extractedValue) ==
  IF TestWholeWord(Negative, extractedValue) THEN Bool(FALSE)
  ELSE IF TestWholeWord(Affirmative, extractedValue) THEN Bool(TRUE)
  ELSE Null

\* type === 'boolean'
parseBoolean(extractedValue) ==
  IF TestWholeWord(Affirmative, extractedValue) THEN Bool(TRUE)
  ELSE IF TestWholeWord(Negative, extractedValue) THEN Bool(FALSE)
  ELSE Null

IsNumericChar(c) == c \in Range(Digits) \cup {"."}

DigitValue(c) == (CHOOSE k \in 1..10 : Digits[k] = c) - 1

IsDigit(c) == c \in Range(Digits)

\* the i-th digit of a sequence of digits read as a decimal fraction
DigitAt(ds, i) == IF i <= Len(ds) THEN DigitValue(ds[i]) ELSE 0

\* 0.a < 0.b for sequences of digits a and b
FractionBelow(a, b) ==
  LET n == IF Len(a) >= Len(b) THEN Len(a) ELSE Len(b)
      D == {i \in 1..n : DigitAt(a, i) # DigitAt(b, i)}
  IN  /\ D # {}
      /\ LET i == CHOOSE d \in D : \A e \in D : d <= e
         IN  DigitAt(a, i) < DigitAt(b, i)

\* the digits of 2^1024 - 2^970, half way between the largest double and
\* 2^1024: a decimal from there on is nearer to no double and Number gives
\* Infinity
RoundsToInfinity ==
  <<"1", "7", "9", "7", "6", "9", "3", "1", "3", "4", "8", "6",
    "2", "3", "1", "5", "8", "0", "7", "9", "3", "7", "2", "8",
    "9", "7", "1", "4", "0", "5", "3", "0", "3", "4", "1", "5",
    "0", "7", "9", "9", "3", "4", "1", "3", "2", "7", "1", "0",
    "0", "3", "7", "8", "2", "6", "9", "3", "6", "1", "7", "3",
    "7", "7", "8", "9", "8", "0", "4", "4", "4", "9", "6", "8",
    "2", "9", "2", "7", "6", "4", "7", "5", "0", "9", "4", "6",
    "6", "4", "9", "0", "1", "7", "9", "7", "7", "5", "8", "7",
    "2", "0", "7", "0", "9", "6", "3", "3", "0", "2", "8", "6",
    "4", "1", "6", "6", "9", "2", "8", "8", "7", "9", "1", "0",
    "9", "4", "6", "5", "5", "5", "5", "4", "7", "8", "5", "1",
    "9", "4", "0", "4", "0", "2", "6", "3", "0", "6", "5", "7",
    "4", "8", "8", "6", "7", "1", "5", "0", "5", "8", "2", "0",
    "6", "8", "1", "9", "0", "8", "9", "0", "2", "0", "0", "0",
    "7", "0", "8", "3", "8", "3", "6", "7", "6", "2", "7", "3",
    "8", "5", "4", "8", "4", "5", "8", "1", "7", "7", "1", "1",
    "5", "3", "1", "7", "6", "4", "4", "7", "5", "7", "3", "0",
    "2", "7", "0", "0", "6", "9", "8", "5", "5", "5", "7", "1",
    "3", "6", "6", "9", "5", "9", "6", "2", "2", "8", "4", "2",
    "9", "1", "4", "8", "1", "9", "8", "6", "0", "8", "3", "4",
    "9", "3", "6", "4", "7", "5", "2", "9", "2", "7", "1", "9",
    "0", "7", "4", "1", "6", "8", "4", "4", "4", "3", "6", "5",
    "5", "1", "0", "7", "0", "4", "3", "4", "2", "7", "1", "1",
    "5", "5", "9", "6", "9", "9", "5", "0", "8", "0", "9", "3",
    "0", "4", "2", "8", "8", "0", "1", "7", "7", "9", "0", "4",
    "1", "7", "4", "4", "9", "7", "7", "9", "2">>

\* the digits after the point of 2^-1075, half the smallest double: a
\* decimal up to there is nearest to zero
RoundsToZero ==
  [i \in 1..323 |-> "0"] \o
  <<"2", "4", "7", "0", "3", "2", "8", "2", "2", "9", "2", "0",
    "6", "2", "3", "2", "7", "2", "0", "8", "8", "2", "8", "4",
    "3", "9", "6", "4", "3", "4", "1", "1", "0", "6", "8", "6",
    "1", "8", "2", "5", "2", "9", "9", "0", "1", "3", "0", "7",
    "1", "6", "2", "3", "8", "2", "2", "1", "2", "7", "9", "2",
    "8", "4", "1", "2", "5", "0", "3", "3", "7", "7", "5", "3",
    "6", "3", "5", "1", "0", "4", "3", "7", "5", "9", "3", "2",
    "6", "4", "9", "9", "1", "8", "1", "8", "0", "8", "1", "7",
    "9", "9", "6", "1", "8", "9", "8", "9", "8", "2", "8", "2",
    "3", "4", "7", "7", "2", "2", "8", "5", "8", "8", "6", "5",
    "4", "6", "3", "3", "2", "8", "3", "5", "5", "1", "7", "7",
    "9", "6", "9", "8", "9", "8", "1", "9", "9", "3", "8", "7",
    "3", "9", "8", "0", "0", "5", "3", "9", "0", "9", "3", "9",
    "0", "6", "3", "1", "5", "0", "3", "5", "6", "5", "9", "5",
    "1", "5", "5", "7", "0", "2", "2", "6", "3", "9", "2", "2",
    "9", "0", "8", "5", "8", "3", "9", "2", "4", "4", "9", "1",
    "0", "5", "1", "8", "4", "4", "3", "5", "9", "3", "1", "8",
    "0", "2", "8", "4", "9", "9", "3", "6", "5", "3", "6", "1",
    "5", "2", "5", "0", "0", "3", "1", "9", "3", "7", "0", "4",
    "5", "7", "6", "7", "8", "2", "4", "9", "2", "1", "9", "3",
    "6", "5", "6", "2", "3", "6", "6", "9", "8", "6", "3", "6",
    "5", "8", "4", "8", "0", "7", "5", "7", "0", "0", "1", "5",
    "8", "5", "7", "6", "9", "2", "6", "9", "9", "0", "3", "7",
    "0", "6", "3", "1", "1", "9", "2", "8", "2", "7", "9", "5",
    "5", "8", "5", "5", "1", "3", "3", "2", "9", "2", "7", "8",
    "3", "4", "3", "3", "8", "4", "0", "9", "3", "5", "1", "9",
    "7", "8", "0", "1", "5", "5", "3", "1", "2", "4", "6", "5",
    "9", "7", "2", "6", "3", "5", "7", "9", "5", "7", "4", "6",
    "2", "2", "7", "6", "6", "4", "6", "5", "2", "7", "2", "8",
    "2", "7", "2", "2", "0", "0", "5", "6", "3", "7", "4", "0",
    "0", "6", "4", "8", "5", "4", "9", "9", "9", "7", "7", "0",
    "9", "6", "5", "9", "9", "4", "7", "0", "4", "5", "4", "0",
    "2", "0", "8", "2", "8", "1", "6", "6", "2", "2", "6", "2",
    "3", "7", "8", "5", "7", "3", "9", "3", "4", "5", "0", "7",
    "3", "6", "3", "3", "9", "0", "0", "7", "9", "6", "7", "7",
    "6", "1", "9", "3", "0", "5", "7", "7", "5", "0", "6", "7",
    "4", "0", "1", "7", "6", "3", "2", "4", "6", "7", "3", "6",
    "0", "0", "9", "6", "8", "9", "5", "1", "3", "4", "0", "5",
    "3", "5", "5", "3", "7", "4", "5", "8", "5", "1", "6", "6",
    "6", "1", "1", "3", "4", "2", "2", "3", "7", "6", "6", "6",
    "7", "8", "6", "0", "4", "1", "6", "2", "1", "5", "9", "6",
    "8", "0", "4", "6", "1", "9", "1", "4", "4", "6", "7", "2",
    "9", "1", "8", "4", "0", "3", "0", "0", "5", "3", "0", "0",
    "5", "7", "5", "3", "0", "8", "4", "9", "0", "4", "8", "7",
    "6", "5", "3", "9", "1", "7", "1", "1", "3", "8", "6", "5",
    "9", "1", "6", "4", "6", "2", "3", "9", "5", "2", "4", "9",
    "1", "2", "6", "2", "3", "6", "5", "3", "8", "8", "1", "8",
    "7", "9", "6", "3", "6", "2", "3", "9", "3", "7", "3", "2",
    "8", "0", "4", "2", "3", "8", "9", "1", "0", "1", "8", "6",
    "7", "2", "3", "4", "8", "4", "9", "7", "6", "6", "8", "2",
    "3", "5", "0", "8", "9", "8", "6", "3", "3", "8", "8", "5",
    "8", "7", "9", "2", "5", "6", "2", "8", "3", "0", "2", "7",
    "5", "5", "9", "9", "5", "6", "5", "7", "5", "2", "4", "4",
    "5", "5", "5", "0", "7", "2", "5", "5", "1", "8", "9", "3",
    "1", "3", "6", "9", "0", "8", "3", "6", "2", "5", "4", "7",
    "7", "9", "1", "8", "6", "9", "4", "8", "6", "6", "7", "9",
    "9", "4", "9", "6", "8", "3", "2", "4", "0", "4", "9", "7",
    "0", "5", "8", "2", "1", "0", "2", "8", "5", "1", "3", "1",
    "8", "5", "4", "5", "1", "3", "9", "6", "2", "1", "3", "8",
    "3", "7", "7", "2", "2", "8", "2", "6", "1", "4", "5", "4",
    "3", "7", "6", "9", "3", "4", "1", "2", "5", "3", "2", "0",
    "9", "8", "5", "9", "1", "3", "2", "7", "6", "6", "7", "2",
    "3", "6", "3", "2", "8", "1", "2", "5">>

\* a sequence of digits without its leading zeros
StripLeadingZeros(ds) ==
  LET K == {i \in 1..Len(ds) : ds[i] # "0"}
  IN  IF K = {} THEN <<>>
      ELSE SubSeq(ds, CHOOSE i \in K : \A j \in K : i <= j, Len(ds))

\* a sequence of digits without its trailing zeros
StripTrailingZeros(ds) ==
  LET K == {i \in 1..Len(ds) : ds[i] # "0"}
  IN  IF K = {} THEN <<>>
      ELSE SubSeq(ds, 1, CHOOSE i \in K : \A j \in K : i >= j)

\* Number(numericValue) for a non-empty string of digits and dots: NaN
\* unless it is a decimal literal, else the nearest double, which is
\* Infinity from RoundsToInfinity on and zero up to RoundsToZero
ToNumber(numericValue) ==
  LET dots == {i \in 1..Len(numericValue) : numericValue[i] = "."}
      ds == SelectSeq(numericValue, IsDigit)
      dot == IF dots = {} THEN Len(numericValue) + 1
             ELSE CHOOSE i \in dots : TRUE
      whole == StripLeadingZeros(SubSeq(numericValue, 1, dot - 1))
      fraction ==
        StripTrailingZeros(SubSeq(numericValue, dot + 1, Len(numericValue)))
  IN  IF Cardinality(dots) > 1 \/ ds = <<>> THEN NaN
      ELSE IF Len(whole) > Len(RoundsToInfinity) THEN Infinity
      ELSE IF /\ Len(whole) = Len(RoundsToInfinity)
              /\ ~FractionBelow(whole, RoundsToInfinity)
      THEN Infinity
      ELSE IF whole = <<>> /\ ~FractionBelow(RoundsToZero, fraction)
      THEN Num(<<>>, <<>>)
      ELSE Num(whole, fraction)

\* a seeded fault: /[^0-9.-]/g, the sign is kept
parseNumber_KeepsSign(extractedValue) ==
  LET numericValue == SelectSeq(extractedValue, IsNumericChar)
  IN  IF numericValue = <<>> THEN Null
      ELSE IF extractedValue[1] = "-"
      THEN [ToNumber(numericValue) EXCEPT !.negative = TRUE]
      ELSE ToNumber(numericValue)

\* type === 'number'
parseNumber(extractedValue) ==
  LET numericValue == SelectSeq(extractedValue, IsNumericChar)
  IN  IF numericValue = <<>> THEN Null ELSE ToNumber(numericValue)

\* the branch on the type of a field
parseField(type, extractedValue) ==
  IF type = "boolean" THEN parseBoolean(extractedValue)
  ELSE IF type = "number" THEN parseNumber(extractedValue)
  ELSE Str(Trim(extractedValue))

----------------------------------------------------------------------------
(* The state after construction *)

\* the constructor's defaults (lines 488-497), with the fields the model reads
DefaultSettings ==
  [useRag |-> TRUE, ragNumResults |-> 3, ragSimilarityThreshold |-> <<1, 4, 0>>,
   maxContextLength |-> 512, contextChunking |-> TRUE]

\* tokenizers with and without an appended end-of-sequence token
Tokenizers == {[eos |-> 0], [eos |-> 1]}

NoEmbeddings == [def |-> FALSE, v |-> <<>>]

NoProbe == [op |-> "none", pc |-> "none"]

\* this.documents = [] and nothing else stored
Constructed ==
  /\ documents = <<>>
  /\ documentEmbeddings = NoEmbeddings
  /\ docGen = 0
  /\ embGen = 0
  /\ tasks = <<>>

----------------------------------------------------------------------------
(* Asynchronous calls *)

\* const DEFAULT_SYSTEM_PROMPT, one symbol
DEFAULT_SYSTEM_PROMPT == <<"You are Teapot, ...">>

NoUserMessage == <<"Error: No user message found in conversation history.">>

\* "Error: Could not generate text.", character by character
CouldNotGenerate ==
  <<"E", "r", "r", "o", "r", ":", " ", "C", "o", "u", "l", "d", " ", "n", "o", "t",
    " ", "g", "e", "n", "e", "r", "a", "t", "e", " ", "t", "e", "x", "t", ".">>

\* no output of the generation model yet
NoOutput == [results |-> -1, hasText |-> FALSE, generated_text |-> <<>>]

\* a call that has not run yet: every field a task has
NewTask(op) ==
  [op |-> op, pc |-> "done", error |-> "",
   input |-> <<>>,        \* initializeEmbeddings: the documents passed
   conversation |-> <<>>, \* chat: the conversation passed
   query |-> <<>>, context |-> <<>>, systemPrompt |-> <<>>,
   docs |-> <<>>,         \* the documents argument of the call in progress
   docsGen |-> 0,
   embs |-> <<>>,         \* the embeddings argument, or the local embeddings
   embsGen |-> 0,
   ranked |-> FALSE,      \* retrieval has ranked the stored arrays it was given
   fullContext |-> <<>>, inputText |-> <<>>,
   chunks |-> <<>>,       \* rag's return value
   text |-> <<>>,         \* query's, chat's and generate's return value
   embedCalls |-> 0, generateCalls |-> 0,
   maxNewTokens |-> 0,    \* generate: the max_new_tokens it asked for
   ragContext |-> <<>>,   \* query: what rag returned (line 727)
   secondPass |-> FALSE,  \* query has reached line 731
   contextPass |-> FALSE, \* query has asked for the embeddings of its chunks
   runningContext |-> <<>>, \* query: fullContext when it reached line 731
   output |-> NoOutput,   \* generate: what the generation model resolved to
   schema |-> <<>>,       \* extract: the entries of the schema, in order
   field |-> 0,           \* extract: the entry whose query is in progress
   extractQuery |-> <<>>, \* extract: its query argument
   extractionContext |-> <<>>,
   result |-> <<>>,       \* extract: the entries of result, in order
   queries |-> <<>>,      \* extract: the queries it has issued, in order
   initCalls |-> 0,       \* the calls of _initializeEmbeddings it has made
   embsDef |-> TRUE,      \* the embeddings argument is not undefined
   noModel |-> FALSE]     \* an embedding was asked for with no model loaded

Throw(t, message) == [t EXCEPT !.pc = "failed", !.error = message]

\* the error thrown where an embedding is needed and no model is loaded
ThrowNoModel(t, message) == [Throw(t, message) EXCEPT !.noModel = TRUE]

\* a seeded fault: max_new_tokens: 512, whatever the settings say
generateCall_FixedBudget(t, inputText) ==
  [t EXCEPT !.pc = "generate", !.inputText = inputText,
            !.maxNewTokens = 512, !.generateCalls = @ + 1]

\* generate up to its await: the prompt goes to the generation model
generateCall(t, inputText) ==
  [t EXCEPT !.pc = "generate", !.inputText = inputText,
            !.maxNewTokens = settings.maxContextLength,
            !.generateCalls = @ + 1]

\* generateDocumentEmbeddings up to its first await, on behalf of query
contextEmbeddingsCall(t0, chunks) ==
  LET t == [t0 EXCEPT !.contextPass = TRUE]
  IN  IF ~embeddingModel THEN ThrowNoModel(t, "Embedding model not initialized")
      ELSE [t EXCEPT !.pc = "ctxEmbedDocs", !.docs = chunks, !.embs = <<>>,
                     !.embedCalls = @ + 1]

\* a seeded fault: documents.length >= this.settings.ragNumResults
queryContextPass_AtLeast(t0) ==
  LET t == [t0 EXCEPT !.secondPass = TRUE, !.runningContext = t0.fullContext]
      inputText == t.fullContext \o <<NL>> \o t.systemPrompt \o <<NL>> \o t.query
  IN  IF settings.contextChunking /\ t.context # <<>>
      THEN LET chunks == chunkDocument(t.context)
           IN  IF Len(chunks) >= settings.ragNumResults
               THEN contextEmbeddingsCall(t, chunks)
               ELSE generateCall(t, inputText)
      ELSE generateCall(t, inputText)

\* query from line 731 to its next await: the second pass over the context
queryContextPass(t0) ==
  LET t == [t0 EXCEPT !.secondPass = TRUE, !.runningContext = t0.fullContext]
      inputText == t.fullContext \o <<NL>> \o t.systemPrompt \o <<NL>> \o t.query
  IN  IF settings.contextChunking /\ t.context # <<>>
      THEN LET chunks == chunkDocument(t.context)
           IN  IF Len(chunks) > settings.ragNumResults
               THEN contextEmbeddingsCall(t, chunks)
               ELSE generateCall(t, inputText)
      ELSE generateCall(t, inputText)

\* query after rag has returned ragContext (line 728), to its next await
queryAfterRag(t, ragContext) ==
  queryContextPass(
    [t EXCEPT !.ragContext = ragContext, !.fullContext =
       Join(ragContext, <<NL, NL>>)
         \o (IF t.context # <<>> THEN <<NL>> \o t.context ELSE <<>>)])

\* what the caller of rag does with its return value
ragReturn(t, chunks) ==
  IF t.op = "rag" THEN [t EXCEPT !.pc = "done", !.chunks = chunks]
  ELSE IF t.op = "extract" /\ t.field = 0
  THEN [t EXCEPT !.pc = "extractLoop", !.chunks = chunks, !.extractionContext =
          Join(chunks, <<NL>>)
            \o (IF t.context # <<>> THEN <<NL>> \o t.context ELSE <<>>)]
  ELSE queryAfterRag(t, chunks)

\* retrieval up to its await: the arrays it was passed stay with the call
retrievalCall(t, docs, dGen, embs, eGen, pc) ==
  IF ~embeddingModel THEN ThrowNoModel(t, "Embedding model not initialized")
  ELSE [t EXCEPT !.pc = pc, !.docs = docs, !.docsGen = dGen,
                 !.embs = embs, !.embsGen = eGen, !.embedCalls = @ + 1]

\* rag returns [] without an await: its own caller has the result, while
\* query and extract, which await it, go on in a later turn
ragReturnsEmpty(t) ==
  IF t.op = "rag" THEN ragReturn(t, <<>>) ELSE [t EXCEPT !.pc = "awaitRag"]

\* a seeded fault: !useRag && !documents.length
rag_BothRequired(t) ==
  IF ~settings.useRag /\ Len(documents) = 0 THEN ragReturnsEmpty(t)
  ELSE IF ~documentEmbeddings.def \/ ~embeddingModel
  THEN [Throw(t, "Document embeddings or embedding model not initialized")
          EXCEPT !.noModel = ~embeddingModel]
  ELSE retrievalCall(t, documents, docGen, documentEmbeddings.v, embGen,
                     "embedQuery")

\* rag up to its first await
rag(t) ==
  IF ~settings.useRag \/ Len(documents) = 0 THEN ragReturnsEmpty(t)
  ELSE IF ~documentEmbeddings.def \/ ~embeddingModel
  THEN [Throw(t, "Document embeddings or embedding model not initialized")
          EXCEPT !.noModel = ~embeddingModel]
  ELSE retrievalCall(t, documents, docGen, documentEmbeddings.v, embGen,
                     "embedQuery")

\* query up to its first await
query(t) ==
  IF settings.useRag THEN rag(t)
  ELSE queryContextPass([t EXCEPT !.fullContext = t.context])

\* `Extract the field ${fieldName} ${descriptionAnnotation}`
FieldQuery(fieldInfo) ==
  <<"Extract the field ">> \o fieldInfo.name \o <<" ">>
    \o (IF fieldInfo.description # <<>>
        THEN <<"(">> \o fieldInfo.description \o <<")">>
        ELSE <<>>)

\* a seeded fault: the loop stops before the last entry of the schema
extractLoop_StopsEarly(t) ==
  IF t.field >= Len(t.schema) - 1 THEN [t EXCEPT !.pc = "done"]
  ELSE query([t EXCEPT !.field = @ + 1,
                       !.query = FieldQuery(t.schema[t.field + 1]),
                       !.queries = Append(@, FieldQuery(t.schema[t.field + 1])),
                       !.context = t.extractionContext,
                       !.systemPrompt = DEFAULT_SYSTEM_PROMPT,
                       !.secondPass = FALSE, !.contextPass = FALSE])

\* the loop of extract from the top of an iteration to its await: the
\* query for the next entry of the schema, or the return of the result
extractLoop(t) ==
  IF t.field = Len(t.schema) THEN [t EXCEPT !.pc = "done"]
  ELSE query([t EXCEPT !.field = @ + 1,
                       !.query = FieldQuery(t.schema[t.field + 1]),
                       !.queries = Append(@, FieldQuery(t.schema[t.field + 1])),
                       !.context = t.extractionContext,
                       !.systemPrompt = DEFAULT_SYSTEM_PROMPT,
                       !.secondPass = FALSE, !.contextPass = FALSE])

\* extract up to its first await
extract(t) ==
  IF settings.useRag THEN rag(t)
  ELSE extractLoop([t EXCEPT !.extractionContext = t.context])

\* what the caller of query does with its return value: extract coerces
\* it and stores it under the field's name
queryReturn(t) ==
  IF t.op = "extract" /\ t.pc = "done"
  THEN [t EXCEPT !.pc = "extractLoop",
                 !.result = Append(@,
                   [name |-> t.schema[t.field].name,
                    value |-> parseField(t.schema[t.field].type, t.text)])]
  ELSE t

\* a seeded fault: findIndex on the conversation as given, the first user
\* message
LastUserIndex_First(conversation) ==
  LET U == {i \in 1..Len(conversation) : conversation[i].role = "user"}
  IN  IF U = {} THEN 0 ELSE CHOOSE i \in U : \A j \in U : i <= j

\* the index of the last message of role user, or 0
LastUserIndex(conversation) ==
  LET U == {i \in 1..Len(conversation) : conversation[i].role = "user"}
  IN  IF U = {} THEN 0 ELSE CHOOSE i \in U : \A j \in U : i >= j

\* `${msg.role}: ${msg.content}`
FormatMessage(msg) == <<msg.role, ":", " ">> \o msg.content

\* the conversation without its message at index
WithoutIndex(conversation, index) ==
  SubSeq(conversation, 1, index - 1)
    \o SubSeq(conversation, index + 1, Len(conversation))

\* historyWithoutLastUser.map(...).join('\n')
ChatHistory(conversation, index) ==
  LET rest == WithoutIndex(conversation, index)
  IN  Join([i \in 1..Len(rest) |-> FormatMessage(rest[i])], <<NL>>)

\* a seeded fault: without a user message the last message is the query,
\* and only the empty conversation gives the sentinel
chat_LastMessageFallback(t) ==
  LET found == LastUserIndex(t.conversation)
      index == IF found = 0 THEN Len(t.conversation) ELSE found
  IN  IF index = 0 THEN [t EXCEPT !.pc = "done", !.text = NoUserMessage]
      ELSE query([t EXCEPT
             !.query = <<"user", ":", " ">> \o t.conversation[index].content,
             !.context = ChatHistory(t.conversation, index),
             !.systemPrompt = DEFAULT_SYSTEM_PROMPT])

\* chat up to its first await
chat(t) ==
  LET index == LastUserIndex(t.conversation)
  IN  IF index = 0 THEN [t EXCEPT !.pc = "done", !.text = NoUserMessage]
      ELSE query([t EXCEPT
             !.query = <<"user", ":", " ">> \o t.conversation[index].content,
             !.context = ChatHistory(t.conversation, index),
             !.systemPrompt = DEFAULT_SYSTEM_PROMPT])

Pending(i) == i \in 1..Len(tasks)

Update(i, t) == tasks' = [tasks EXCEPT ![i] = t]

Stored == <<documents, documentEmbeddings, docGen, embGen>>

Fixed == <<settings, llm, embeddingModel, probe>>

\* initializeEmbeddings(docs) up to its await
CallInitializeEmbeddings(docs) ==
  /\ Len(tasks) < MaxCalls
  /\ LET chunks == IF Len(docs) > 0
                   THEN Flatten([d \in 1..Len(docs) |-> chunkDocument(docs[d])])
                   ELSE documents
         gen == IF Len(docs) > 0 THEN docGen + 1 ELSE docGen
         t == [NewTask("initializeEmbeddings") EXCEPT
                 !.input = docs, !.docs = chunks, !.docsGen = gen]
     IN  /\ documents' = chunks
         /\ docGen' = gen
         /\ tasks' = Append(tasks,
              IF ~embeddingModel
              THEN ThrowNoModel(t, "Embedding model not initialized")
              ELSE IF Len(chunks) = 0 THEN [t EXCEPT !.pc = "assign"]
              ELSE [t EXCEPT !.pc = "embedDocs", !.embedCalls = 1])
  /\ UNCHANGED <<documentEmbeddings, embGen, Fixed>>

\* generateDocumentEmbeddings: one embedding arrives and is pushed; the loop
\* asks for the next one or returns
EmbedDocument(i) ==
  /\ Pending(i)
  /\ tasks[i].pc \in {"embedDocs", "ctxEmbedDocs"}
  /\ LET t == tasks[i]
         embeddings == Append(t.embs, Embed(t.docs[Len(t.embs) + 1]))
         more == Len(embeddings) < Len(t.docs)
         pushed == [t EXCEPT !.embs = embeddings]
     IN  Update(i,
           IF more THEN [pushed EXCEPT !.embedCalls = @ + 1]
           ELSE IF t.pc = "embedDocs" THEN [pushed EXCEPT !.pc = "assign"]
           ELSE retrievalCall(pushed, pushed.docs, 0, embeddings, 0,
                              "ctxEmbedQuery"))
  /\ UNCHANGED <<Stored, Fixed>>

\* initializeEmbeddings after its await: this.documentEmbeddings = ...
AssignEmbeddings(i) ==
  /\ Pending(i)
  /\ tasks[i].pc = "assign"
  /\ documentEmbeddings' = [def |-> TRUE, v |-> tasks[i].embs]
  /\ embGen' = tasks[i].docsGen
  /\ Update(i, [tasks[i] EXCEPT !.pc = "done"])
  /\ UNCHANGED <<documents, docGen, Fixed>>

\* rag(query)
CallRag(q) ==
  /\ Len(tasks) < MaxCalls
  /\ tasks' = Append(tasks, rag([NewTask("rag") EXCEPT !.query = q]))
  /\ UNCHANGED <<Stored, Fixed>>

\* query(query, context, systemPrompt)
CallQueryPrompt(q, context, systemPrompt) ==
  /\ Len(tasks) < MaxCalls
  /\ tasks' = Append(tasks,
       query([NewTask("query") EXCEPT !.query = q, !.context = context,
                                      !.systemPrompt = systemPrompt]))
  /\ UNCHANGED <<Stored, Fixed>>

\* query(query, context) with the default system prompt
CallQuery(q, context) == CallQueryPrompt(q, context, DEFAULT_SYSTEM_PROMPT)

\* chat(conversationHistory)
CallChat(conversation) ==
  /\ Len(tasks) < MaxCalls
  /\ tasks' = Append(tasks,
       chat([NewTask("chat") EXCEPT !.conversation = conversation]))
  /\ UNCHANGED <<Stored, Fixed>>

\* generate(inputText)
CallGenerate(inputText) ==
  /\ Len(tasks) < MaxCalls
  /\ tasks' = Append(tasks, generateCall(NewTask("generate"), inputText))
  /\ UNCHANGED <<Stored, Fixed>>

\* extract(schema, query, context)
CallExtract(schema, q, context) ==
  /\ Len(tasks) < MaxCalls
  /\ tasks' = Append(tasks,
       extract([NewTask("extract") EXCEPT !.schema = schema, !.extractQuery = q,
                                          !.query = q, !.context = context]))
  /\ UNCHANGED <<Stored, Fixed>>

\* extract after an await: the next iteration of its loop
ExtractLoop(i) ==
  /\ Pending(i)
  /\ tasks[i].pc = "extractLoop"
  /\ Update(i, extractLoop(tasks[i]))
  /\ UNCHANGED <<Stored, Fixed>>

\* query or extract after await this.rag(query), when rag returned []
\* without calling the embedding model
AwaitRag(i) ==
  /\ Pending(i)
  /\ tasks[i].pc = "awaitRag"
  /\ Update(i, ragReturn(tasks[i], <<>>))
  /\ UNCHANGED <<Stored, Fixed>>

\* retrieval over the stored arrays, after its await: the query's embedding
\* has arrived and the arrays passed are ranked
RankStored(i) ==
  /\ Pending(i)
  /\ tasks[i].pc = "embedQuery"
  /\ LET t == tasks[i]
     IN  Update(i, ragReturn([t EXCEPT !.ranked = TRUE],
                             Rank(Embed(t.query), t.docs, t.embs)))
  /\ UNCHANGED <<Stored, Fixed>>

\* a seeded fault: the chunks of the caller's context are assigned to
\* this.documents
RankContext_StoresChunks(i) ==
  /\ Pending(i)
  /\ tasks[i].pc = "ctxEmbedQuery"
  /\ LET t == tasks[i]
         ragDocuments == Rank(Embed(t.query), t.docs, t.embs)
         fullContext == t.fullContext \o <<NL, NL>> \o Join(ragDocuments, <<NL, NL>>)
     IN  Update(i, generateCall([t EXCEPT !.fullContext = fullContext],
                     fullContext \o <<NL>> \o t.systemPrompt \o <<NL>> \o t.query))
  /\ documents' = tasks[i].docs
  /\ UNCHANGED <<documentEmbeddings, docGen, embGen, Fixed>>

\* retrieval over the chunks of the caller's context, after its await, and
\* query up to the generation call
RankContext(i) ==
  /\ Pending(i)
  /\ tasks[i].pc = "ctxEmbedQuery"
  /\ LET t == tasks[i]
         ragDocuments == Rank(Embed(t.query), t.docs, t.embs)
         fullContext == t.fullContext \o <<NL, NL>> \o Join(ragDocuments, <<NL, NL>>)
     IN  Update(i, generateCall([t EXCEPT !.fullContext = fullContext],
                     fullContext \o <<NL>> \o t.systemPrompt \o <<NL>> \o t.query))
  /\ UNCHANGED <<Stored, Fixed>>

\* what the generation model may resolve to: no result, a result without
\* generated_text, or a result with a text
LlmOutputs ==
  {[results |-> 0, hasText |-> FALSE, generated_text |-> <<>>],
   [results |-> 1, hasText |-> FALSE, generated_text |-> <<>>],
   [results |-> 1, hasText |-> TRUE, generated_text |-> <<>>],
   [results |-> 1, hasText |-> TRUE, generated_text |-> <<" ", "a", " ">>]}

\* generate after its await
generateReturn(t0, output) ==
  LET t == [t0 EXCEPT !.output = output]
  IN  IF output.results = 0
      THEN Throw(t, "TypeError: Cannot use 'in' operator to search for 'generated_text' in undefined")
      ELSE IF ~output.hasText THEN [t EXCEPT !.pc = "done", !.text = CouldNotGenerate]
      ELSE [t EXCEPT !.pc = "done", !.text = Trim(output.generated_text)]

Generate(i) ==
  /\ Pending(i)
  /\ tasks[i].pc = "generate"
  /\ \E output \in LlmOutputs :
       Update(i, queryReturn(generateReturn(tasks[i], output)))
  /\ UNCHANGED <<Stored, Fixed>>

----------------------------------------------------------------------------
(* One instance and the calls made on it, in any interleaving *)

TextA == <<"a">>

TextB == <<"b">>

\* 513 words, a blank line, one word: three chunks when chunking is enabled
LongText == Rep("a", maxLength + 1) \o <<NL, NL>> \o TextB

DocumentSets == {<<>>, <<TextA>>, <<TextB, TextA>>}

Queries == {TextA}

Contexts == {LongText}

Init ==
  /\ settings \in {[DefaultSettings EXCEPT !.useRag = u, !.ragNumResults = 1] :
                     u \in BOOLEAN}
  /\ llm = [eos |-> 1]
  /\ embeddingModel \in BOOLEAN
  /\ Constructed
  /\ probe = NoProbe

Next ==
  \/ \E docs \in DocumentSets : CallInitializeEmbeddings(docs)
  \/ \E q \in Queries : CallRag(q)
  \/ \E context \in Contexts : CallQuery(TextA, context)
  \/ \E i \in 1..MaxCalls : AwaitRag(i)
  \/ \E i \in 1..MaxCalls : EmbedDocument(i)
  \/ \E i \in 1..MaxCalls : AssignEmbeddings(i)
  \/ \E i \in 1..MaxCalls : RankStored(i)
  \/ \E i \in 1..MaxCalls : RankContext(i)
  \/ \E i \in 1..MaxCalls : Generate(i)

Spec == Init /\ [][Next]_vars

----------------------------------------------------------------------------
(* One chat on an instance that fromPretrained has returned *)

\* what fromPretrained({ documents: docs, settings }) resolves to: without
\* useRag no embedding model is loaded and nothing is stored
Pretrained(docs) ==
  LET chunks == Flatten([d \in 1..Len(docs) |-> chunkDocument(docs[d])])
  IN  IF settings.useRag
      THEN /\ embeddingModel = TRUE
           /\ documents = chunks
           /\ documentEmbeddings =
                [def |-> TRUE, v |-> [c \in 1..Len(chunks) |-> Embed(chunks[c])]]
           /\ docGen = (IF Len(docs) > 0 THEN 1 ELSE 0)
           /\ embGen = docGen
      ELSE /\ embeddingModel = FALSE
           /\ documents = <<>>
           /\ documentEmbeddings = NoEmbeddings
           /\ docGen = 0
           /\ embGen = 0

Roles == {"system", "user", "assistant"}

ChatMessages ==
  {[role |-> r, content |-> c] : r \in Roles, c \in {TextA, TextB}}
  \cup {[role |-> "system", content |-> LongText]}

Conversations == UNION {[1..n -> ChatMessages] : n \in 0..MaxMsgs}

InitChat ==
  /\ settings \in {[DefaultSettings EXCEPT !.useRag = u, !.ragNumResults = 1,
                                           !.contextChunking = c] :
                     u \in BOOLEAN, c \in BOOLEAN}
  /\ llm = [eos |-> 1]
  /\ \E docs \in {<<>>, <<TextB, TextA>>} : Pretrained(docs)
  /\ tasks = <<>>
  /\ probe = NoProbe

\* the one chat of a behaviour
FirstChat ==
  /\ tasks = <<>>
  /\ \E conversation \in Conversations : CallChat(conversation)

NextChat ==
  \/ FirstChat
  \/ AwaitRag(1)
  \/ RankStored(1)
  \/ EmbedDocument(1)
  \/ RankContext(1)
  \/ Generate(1)

SpecChat == InitChat /\ [][NextChat]_vars

----------------------------------------------------------------------------
(* One rag, query, generate, extract or chat on an instance that
   fromPretrained has returned *)

\* the most entries of a schema passed to extract
MaxFields == 2

FieldInfos ==
  {[name |-> TextA, type |-> "boolean", description |-> <<>>],
   [name |-> TextB, type |-> "number", description |-> TextB],
   [name |-> <<"c">>, type |-> "string", description |-> <<>>]}

\* the entries of an object have distinct keys
Schemas ==
  {sc \in SeqsUpTo(FieldInfos, MaxFields) :
     \A j, k \in 1..Len(sc) : sc[j].name = sc[k].name => j = k}

CallContexts == {<<>>, TextB, LongText}

InitCall ==
  /\ settings \in {[DefaultSettings EXCEPT !.useRag = u, !.ragNumResults = 1,
                                           !.contextChunking = c,
                                           !.maxContextLength = m] :
                     u \in BOOLEAN, c \in BOOLEAN, m \in {512, 16}}
  /\ llm = [eos |-> 1]
  /\ \E docs \in {<<>>, <<TextB>>, <<TextB, TextA>>} : Pretrained(docs)
  /\ tasks = <<>>
  /\ probe = NoProbe

FirstQuery ==
  /\ tasks = <<>>
  /\ \E q \in {TextA, TextB} : \E context \in CallContexts :
       \E systemPrompt \in {DEFAULT_SYSTEM_PROMPT, <<"Be brief.">>} :
         CallQueryPrompt(q, context, systemPrompt)

FirstGenerate ==
  /\ tasks = <<>>
  /\ \E inputText \in {TextA, <<>>} : CallGenerate(inputText)

FirstExtract ==
  /\ tasks = <<>>
  /\ \E schema \in Schemas : \E q \in {TextA, <<>>} :
       \E context \in CallContexts : CallExtract(schema, q, context)

FirstRag ==
  /\ tasks = <<>>
  /\ \E q \in {TextA, TextB} : CallRag(q)

NextCall ==
  \/ FirstRag
  \/ FirstQuery
  \/ FirstGenerate
  \/ FirstExtract
  \/ FirstChat
  \/ AwaitRag(1)
  \/ RankStored(1)
  \/ EmbedDocument(1)
  \/ RankContext(1)
  \/ Generate(1)
  \/ ExtractLoop(1)

SpecCall == InitCall /\ [][NextCall]_vars

----------------------------------------------------------------------------
(* chunkDocument applied to drawn documents *)

\* k one-token words, then a blank line, then m one-token words
TwoParagraphs(k, m) == Rep("a", k) \o <<NL, NL>> \o Rep("b", m)

ChunkInputs ==
  {Rep("a", k) : k \in {0, 1, maxLength - 1, maxLength, maxLength + 1,
                        2 * maxLength, 2 * maxLength + 1}}
  \cup {TwoParagraphs(1, 1), TwoParagraphs(0, 0), TwoParagraphs(1, 0),
        TwoParagraphs(255, 256), TwoParagraphs(256, 256),
        TwoParagraphs(256, 257), TwoParagraphs(1, maxLength - 1),
        TwoParagraphs(1, maxLength), TwoParagraphs(1, maxLength + 1),
        TwoParagraphs(maxLength + 1, 0)}
  \cup {<<"a", " ", "b">>, <<" ", "a", NL>>,
        Rep("a", maxLength) \o <<NL>> \o Rep("b", 2) \o <<NL, NL, " ", "b">>}

InitChunk ==
  /\ settings \in {[DefaultSettings EXCEPT !.contextChunking = c] : c \in BOOLEAN}
  /\ llm \in Tokenizers
  /\ embeddingModel = FALSE
  /\ Constructed
  /\ probe \in {[op |-> "chunkDocument", pc |-> "call", context |-> d,
                 chunks |-> <<>>, again |-> <<>>] : d \in ChunkInputs}

\* chunk(d)
ProbeChunk ==
  /\ probe.op = "chunkDocument"
  /\ probe.pc = "call"
  /\ probe' = [probe EXCEPT !.pc = "chunked",
                            !.chunks = chunkDocument(probe.context)]
  /\ UNCHANGED instance

\* chunk(c) for every chunk c of chunk(d)
ProbeRechunk ==
  /\ probe.op = "chunkDocument"
  /\ probe.pc = "chunked"
  /\ probe' = [probe EXCEPT !.pc = "rechunked",
                 !.again = [i \in 1..Len(probe.chunks) |->
                              chunkDocument(probe.chunks[i])]]
  /\ UNCHANGED instance

NextChunk == ProbeChunk \/ ProbeRechunk

SpecChunk == InitChunk /\ [][NextChunk]_vars

----------------------------------------------------------------------------
(* retrieval's ranking applied to drawn vectors *)

\* the largest ragNumResults drawn
MaxLimit == 2

ProbeQueries == {Vec(<<1, 0>>), Vec(<<1, 1>>), Vec(<<-1, 1>>), Vec(<<0, 0>>)}

ProbeEmbeddings ==
  {Vec(<<1, 0>>), Vec(<<0, 1>>), Vec(<<1, 1>>), Vec(<<2, 1>>), Vec(<<-1, 0>>),
   Vec(<<0, 0>>), Vec(<<1>>)}

\* 0.5 and 0.3 (the two defaults), 0 and -0.5
Thresholds == {<<1, 4, 0>>, <<3, 100, 0>>, <<0, 1, 0>>, <<-1, 4, 0>>}

InitRetrieval ==
  /\ settings \in {[DefaultSettings EXCEPT !.ragNumResults = n,
                                           !.ragSimilarityThreshold = t] :
                     n \in 1..MaxLimit, t \in Thresholds}
  /\ llm = [eos |-> 1]
  /\ embeddingModel = TRUE
  /\ Constructed
  /\ probe \in {[op |-> "retrieval", pc |-> "call", queryVectors |-> q,
                 docs |-> [i \in 1..Len(e) |-> Rep("a", i)], embeddings |-> e,
                 indices |-> <<>>, result |-> <<>>] :
                  q \in ProbeQueries, e \in SeqsUpTo(ProbeEmbeddings, MaxRanked)}

\* retrieval from the arrival of the query's embedding to its return
ProbeRank ==
  /\ probe.op = "retrieval"
  /\ probe.pc = "call"
  /\ probe' = [probe EXCEPT !.pc = "done",
                 !.indices = filteredIndices(probe.queryVectors, probe.embeddings),
                 !.result = Rank(probe.queryVectors, probe.docs, probe.embeddings)]
  /\ UNCHANGED instance

NextRetrieval == ProbeRank

SpecRetrieval == InitRetrieval /\ [][NextRetrieval]_vars

----------------------------------------------------------------------------
(* The coercions applied to drawn answers *)

AnswerPieces ==
  {<<>>,
   <<"y", "e", "s">>,
   <<"Y", "e", "s">>,
   <<"T", "R", "U", "E">>,
   <<"t", "r", "u", "e">>,
   <<"n", "o">>,
   <<"N", "o">>,
   <<"f", "A", "L", "S", "E">>,
   <<"n", "o", "t", "h", "i", "n", "g">>,
   <<"y", "e", "s", "t", "e", "r", "d", "a", "y">>,
   <<"k", "n", "o", "w">>,
   <<"u", "n", "t", "r", "u", "e">>,
   <<"$", "2", "5", "0", "0">>,
   <<"-", "5">>,
   <<"1", "e", "3">>,
   <<"2", ".", "5">>,
   <<"1", ".", "2", ".", "3">>,
   <<".">>,
   <<"0", "0", "7">>,
   <<"o", "k">>}

Separators == {<<>>, <<" ">>, <<"_">>, <<",">>, <<"-">>, <<"\t">>}

\* answers at the limits of a double, and white space other than a space
LongAnswers ==
  {Rep("9", Len(RoundsToInfinity) + 1),
   RoundsToInfinity,
   <<"1">> \o Rep("0", Len(RoundsToInfinity) - 1),
   <<"0", ".">> \o Rep("0", 399) \o <<"1">>,
   <<"0", ".">> \o RoundsToZero \o <<"1">>,
   <<"9", "0", "0", "7", "1", "9", "9", "2", "5", "4", "7", "4", "0", "9",
     "9", "3">>,
   <<"", "a", "">>,
   <<"U+2003", "a", " ", "b", "U+3000">>}

\* two pieces and what is between them
Answers ==
  {a \o sep \o b : a \in AnswerPieces, sep \in Separators,
                   b \in AnswerPieces}

InitParse ==
  /\ settings = DefaultSettings
  /\ llm = [eos |-> 1]
  /\ embeddingModel = FALSE
  /\ Constructed
  /\ probe \in {[op |-> "parse", pc |-> "call", type |-> ty, answer |-> a,
                 value |-> Null] : ty \in {"boolean", "number", "string"},
                                    a \in Answers}
               \cup {[op |-> "parse", pc |-> "call", type |-> ty,
                      answer |-> a, value |-> Null] :
                       ty \in {"number", "string"}, a \in LongAnswers}

\* the coercion of one answer
ProbeParse ==
  /\ probe.op = "parse"
  /\ probe.pc = "call"
  /\ probe' = [probe EXCEPT !.pc = "done",
                            !.value = parseField(probe.type, probe.answer)]
  /\ UNCHANGED instance

NextParse == ProbeParse

SpecParse == InitParse /\ [][NextParse]_vars

----------------------------------------------------------------------------
(* cosineSimilarity applied to drawn values *)

Components == -2..2

\* the arrays of at most two components, and a value that is not an array
CosineInputs ==
  {NotAnArray} \cup {Vec(v) : v \in SeqsUpTo(Components, 2)}

InitCosine ==
  /\ settings \in {[DefaultSettings EXCEPT !.ragSimilarityThreshold = t] :
                     t \in Thresholds}
  /\ llm = [eos |-> 1]
  /\ embeddingModel = TRUE
  /\ Constructed
  /\ probe \in {[op |-> "cosine", pc |-> "call", vecA |-> a, vecB |-> b,
                 ab |-> Zero, ba |-> Zero, aa |-> Zero, kept |-> <<>>] :
                  a \in CosineInputs, b \in CosineInputs}

\* sim(a, b), sim(b, a), sim(a, a), and the ranking of the one stored
\* embedding b against the query vector a
ProbeCosine ==
  /\ probe.op = "cosine"
  /\ probe.pc = "call"
  /\ probe' = [probe EXCEPT !.pc = "done",
                 !.ab = cosineSimilarity(probe.vecA, probe.vecB),
                 !.ba = cosineSimilarity(probe.vecB, probe.vecA),
                 !.aa = cosineSimilarity(probe.vecA, probe.vecA),
                 !.kept = filteredIndices(probe.vecA, <<probe.vecB>>)]
  /\ UNCHANGED instance

NextCosine == ProbeCosine

SpecCosine == InitCosine /\ [][NextCosine]_vars

----------------------------------------------------------------------------
(* The class of lines 1-409: the embedding model is loaded lazily, and
   neither _generateDocumentEmbeddings nor _retrieval looks at it *)

\* the defaults of its constructor (lines 37-46)
JsDefaultSettings ==
  [useRag |-> FALSE, ragNumResults |-> 3, ragSimilarityThreshold |-> <<3, 100, 0>>,
   maxContextLength |-> 512, contextChunking |-> TRUE]

NotAFunction == "TypeError: this.embeddingModel is not a function"

\* the call this.embeddingModel(...) of _generateDocumentEmbeddings and of
\* _retrieval: a TypeError while this.embeddingModel is undefined
jsEmbeddingModelCall(t, next) ==
  IF ~embeddingModel THEN ThrowNoModel(t, NotAFunction)
  ELSE [next EXCEPT !.embedCalls = @ + 1]

\* _retrieval up to its await: the arrays it was passed stay with the call,
\* and the embeddings may be undefined
jsRetrievalCall(t, docs, dGen, embs, eGen, pc) ==
  jsEmbeddingModelCall(t,
    [t EXCEPT !.pc = pc, !.docs = docs, !.docsGen = dGen, !.embs = embs.v,
              !.embsDef = embs.def, !.embsGen = eGen])

\* _generateDocumentEmbeddings up to its first await, on behalf of query
jsContextEmbeddingsCall(t0, chunks) ==
  LET t == [t0 EXCEPT !.contextPass = TRUE] IN
  IF Len(chunks) = 0
  THEN jsRetrievalCall(t, chunks, 0, [def |-> TRUE, v |-> <<>>], 0,
                       "jsCtxEmbedQuery")
  ELSE jsEmbeddingModelCall(t,
         [t EXCEPT !.pc = "jsCtxEmbedDocs", !.docs = chunks, !.embs = <<>>])

\* query from line 316 to its next await
jsQueryContextPass(t0) ==
  LET t == [t0 EXCEPT !.secondPass = TRUE, !.runningContext = t0.fullContext]
      inputText == t.fullContext \o <<NL>> \o t.systemPrompt \o <<NL>> \o t.query
  IN  IF settings.contextChunking /\ t.context # <<>>
      THEN LET chunks == chunkDocument(t.context)
           IN  IF Len(chunks) > settings.ragNumResults
               THEN jsContextEmbeddingsCall(t, chunks)
               ELSE generateCall(t, inputText)
      ELSE generateCall(t, inputText)

\* what the caller of rag does with its return value: rag returns it,
\* extract (line 374) joins it with a line feed, query (line 313) with a
\* blank line
jsRagReturn(t, chunks) ==
  IF t.op = "rag" THEN [t EXCEPT !.pc = "done", !.chunks = chunks]
  ELSE IF t.op = "extract" /\ t.field = 0
  THEN [t EXCEPT !.pc = "jsExtractLoop", !.chunks = chunks,
                 !.extractionContext =
          Join(chunks, <<NL>>)
            \o (IF t.context # <<>> THEN <<NL>> \o t.context ELSE <<>>)]
  ELSE jsQueryContextPass(
         [t EXCEPT !.ragContext = chunks, !.fullContext =
            Join(chunks, <<NL, NL>>)
              \o (IF t.context # <<>> THEN <<NL>> \o t.context ELSE <<>>)])

\* rag up to its first await
jsRag(t) ==
  IF ~settings.useRag \/ Len(documents) = 0
  THEN IF t.op = "rag" THEN jsRagReturn(t, <<>>)
       ELSE [t EXCEPT !.pc = "jsAwaitRag"]
  ELSE IF ~embeddingModel
  THEN [t EXCEPT !.pc = "jsLoadModel", !.initCalls = @ + 1]
  ELSE jsRetrievalCall(t, documents, docGen, documentEmbeddings, embGen,
                       "jsEmbedQuery")

\* query up to its first await
jsQuery(t) ==
  IF settings.useRag THEN jsRag(t)
  ELSE jsQueryContextPass([t EXCEPT !.fullContext = t.context])

\* the loop of extract (lines 379-405) from the top of an iteration to its
\* await
jsExtractLoop(t) ==
  IF t.field = Len(t.schema) THEN [t EXCEPT !.pc = "done"]
  ELSE jsQuery([t EXCEPT !.field = @ + 1,
                         !.query = FieldQuery(t.schema[t.field + 1]),
                         !.queries = Append(@, FieldQuery(t.schema[t.field + 1])),
                         !.context = t.extractionContext,
                         !.systemPrompt = DEFAULT_SYSTEM_PROMPT,
                         !.secondPass = FALSE, !.contextPass = FALSE])

\* extract up to its first await
jsExtract(t) ==
  IF settings.useRag THEN jsRag(t)
  ELSE jsExtractLoop([t EXCEPT !.extractionContext = t.context])

\* what the caller of query does with its return value: extract coerces
\* it (lines 391-402) and stores it under the field's name
jsQueryReturn(t) ==
  IF t.op = "extract" /\ t.pc = "done"
  THEN [t EXCEPT !.pc = "jsExtractLoop",
                 !.result = Append(@,
                   [name |-> t.schema[t.field].name,
                    value |-> parseField(t.schema[t.field].type, t.text)])]
  ELSE t

\* chat up to its first await
jsChat(t) ==
  LET index == LastUserIndex(t.conversation)
  IN  IF index = 0 THEN [t EXCEPT !.pc = "done", !.text = NoUserMessage]
      ELSE jsQuery([t EXCEPT
             !.query = <<"user", ":", " ">> \o t.conversation[index].content,
             !.context = ChatHistory(t.conversation, index),
             !.systemPrompt = DEFAULT_SYSTEM_PROMPT])

\* new TeapotAI(model, docs, settings): the chunks are stored, and with
\* useRag _initializeEmbeddings is started and not awaited
JsConstructed(docs) ==
  LET chunks == Flatten([d \in 1..Len(docs) |-> chunkDocument(docs[d])])
  IN  /\ embeddingModel = FALSE
      /\ documents = chunks
      /\ documentEmbeddings = NoEmbeddings
      /\ docGen = (IF Len(docs) > 0 THEN 1 ELSE 0)
      /\ embGen = 0
      /\ tasks = IF Len(docs) > 0 /\ settings.useRag
                 THEN <<[NewTask("_initializeEmbeddings") EXCEPT
                           !.pc = "jsLoadModel", !.initCalls = 1]>>
                 ELSE <<>>

\* _initializeEmbeddings after its first await: the pipeline is stored,
\* and the stored documents go to _generateDocumentEmbeddings; without
\* documents it returns, and a rag that awaits it goes on in a later turn
JsModelLoaded(i) ==
  /\ Pending(i)
  /\ tasks[i].pc = "jsLoadModel"
  /\ embeddingModel' = TRUE
  /\ LET t == tasks[i]
     IN  Update(i,
           IF Len(documents) > 0
           THEN [t EXCEPT !.pc = "jsEmbedDocs", !.docs = documents,
                          !.docsGen = docGen, !.embs = <<>>,
                          !.embedCalls = @ + 1]
           ELSE IF t.op = "_initializeEmbeddings" THEN [t EXCEPT !.pc = "done"]
           ELSE [t EXCEPT !.pc = "jsAwaitInit"])
  /\ UNCHANGED <<Stored, settings, llm, probe>>

\* _generateDocumentEmbeddings: one embedding arrives and is pushed; the
\* loop asks for the next one or returns
JsEmbedDocument(i) ==
  /\ Pending(i)
  /\ tasks[i].pc \in {"jsEmbedDocs", "jsCtxEmbedDocs"}
  /\ LET t == tasks[i]
         embeddings == Append(t.embs, Embed(t.docs[Len(t.embs) + 1]))
         more == Len(embeddings) < Len(t.docs)
         pushed == [t EXCEPT !.embs = embeddings]
     IN  Update(i,
           IF more THEN jsEmbeddingModelCall(pushed, pushed)
           ELSE IF t.pc = "jsEmbedDocs" THEN [pushed EXCEPT !.pc = "jsAssign"]
           ELSE jsRetrievalCall(pushed, pushed.docs, 0,
                                [def |-> TRUE, v |-> embeddings], 0,
                                "jsCtxEmbedQuery"))
  /\ UNCHANGED <<Stored, Fixed>>

\* _initializeEmbeddings after its second await: this.documentEmbeddings
\* is assigned (line 123) and the call returns; a rag that awaits it
\* (line 275) goes on in a later turn
JsAssignEmbeddings(i) ==
  /\ Pending(i)
  /\ tasks[i].pc = "jsAssign"
  /\ LET t == tasks[i]
     IN  /\ documentEmbeddings' = [def |-> TRUE, v |-> t.embs]
         /\ embGen' = t.docsGen
         /\ Update(i,
              IF t.op = "_initializeEmbeddings" THEN [t EXCEPT !.pc = "done"]
              ELSE [t EXCEPT !.pc = "jsAwaitInit"])
  /\ UNCHANGED <<documents, docGen, Fixed>>

\* rag after await this._initializeEmbeddings(): line 278 reads
\* this.documents and this.documentEmbeddings as they are by then and
\* _retrieval asks for the query's embedding
JsAwaitInit(i) ==
  /\ Pending(i)
  /\ tasks[i].pc = "jsAwaitInit"
  /\ Update(i, jsRetrievalCall(tasks[i], documents, docGen,
                               documentEmbeddings, embGen, "jsEmbedQuery"))
  /\ UNCHANGED <<Stored, Fixed>>

\* rag(query)
JsCallRag(q) ==
  /\ Len(tasks) < MaxCalls
  /\ tasks' = Append(tasks, jsRag([NewTask("rag") EXCEPT !.query = q]))
  /\ UNCHANGED <<Stored, Fixed>>

\* query(query, context) with the default system prompt
JsCallQuery(q, context) ==
  /\ Len(tasks) < MaxCalls
  /\ tasks' = Append(tasks,
       jsQuery([NewTask("query") EXCEPT !.query = q, !.context = context,
                                        !.systemPrompt = DEFAULT_SYSTEM_PROMPT]))
  /\ UNCHANGED <<Stored, Fixed>>

\* chat(conversationHistory)
JsCallChat(conversation) ==
  /\ Len(tasks) < MaxCalls
  /\ tasks' = Append(tasks,
       jsChat([NewTask("chat") EXCEPT !.conversation = conversation]))
  /\ UNCHANGED <<Stored, Fixed>>

\* generate(inputText)
JsCallGenerate(inputText) ==
  /\ Len(tasks) < MaxCalls
  /\ tasks' = Append(tasks, generateCall(NewTask("generate"), inputText))
  /\ UNCHANGED <<Stored, Fixed>>

\* extract(schema, query, context)
JsCallExtract(schema, q, context) ==
  /\ Len(tasks) < MaxCalls
  /\ tasks' = Append(tasks,
       jsExtract([NewTask("extract") EXCEPT !.schema = schema,
                                            !.extractQuery = q,
                                            !.query = q, !.context = context]))
  /\ UNCHANGED <<Stored, Fixed>>

\* extract after an await: the next iteration of its loop
JsExtractLoop(i) ==
  /\ Pending(i)
  /\ tasks[i].pc = "jsExtractLoop"
  /\ Update(i, jsExtractLoop(tasks[i]))
  /\ UNCHANGED <<Stored, Fixed>>

\* query or extract after await this.rag(query), when rag returned []
\* without an await of its own
JsAwaitRag(i) ==
  /\ Pending(i)
  /\ tasks[i].pc = "jsAwaitRag"
  /\ Update(i, jsRagReturn(tasks[i], <<>>))
  /\ UNCHANGED <<Stored, Fixed>>

\* _retrieval over the stored arrays, after its await: documentEmbeddings
\* .map(...) on the argument it was passed
JsRankStored(i) ==
  /\ Pending(i)
  /\ tasks[i].pc = "jsEmbedQuery"
  /\ LET t == tasks[i]
     IN  Update(i,
           IF ~t.embsDef
           THEN Throw(t, "TypeError: Cannot read properties of undefined (reading 'map')")
           ELSE jsRagReturn([t EXCEPT !.ranked = TRUE],
                            Rank(Embed(t.query), t.docs, t.embs)))
  /\ UNCHANGED <<Stored, Fixed>>

\* _retrieval over the chunks of the caller's context, after its await,
\* and query up to the generation call
JsRankContext(i) ==
  /\ Pending(i)
  /\ tasks[i].pc = "jsCtxEmbedQuery"
  /\ LET t == tasks[i]
         ragDocuments == Rank(Embed(t.query), t.docs, t.embs)
         fullContext == t.fullContext \o <<NL, NL>> \o Join(ragDocuments, <<NL, NL>>)
     IN  Update(i, generateCall([t EXCEPT !.fullContext = fullContext],
                     fullContext \o <<NL>> \o t.systemPrompt \o <<NL>> \o t.query))
  /\ UNCHANGED <<Stored, Fixed>>

\* generate after its await: output[0]?.generated_text.trim() || ""
jsGenerateReturn(t0, output) ==
  LET t == [t0 EXCEPT !.output = output]
  IN  IF output.results = 0 THEN [t EXCEPT !.pc = "done", !.text = <<>>]
      ELSE IF ~output.hasText
      THEN Throw(t, "TypeError: Cannot read properties of undefined (reading 'trim')")
      ELSE [t EXCEPT !.pc = "done", !.text = Trim(output.generated_text)]

JsGenerate(i) ==
  /\ Pending(i)
  /\ tasks[i].pc = "generate"
  /\ \E output \in LlmOutputs :
       Update(i, jsQueryReturn(jsGenerateReturn(tasks[i], output)))
  /\ UNCHANGED <<Stored, Fixed>>

\* the conversations and schemas drawn for the calls of chat and extract
JsConversations ==
  {<<[role |-> "assistant", content |-> TextB]>>,
   <<[role |-> "user", content |-> TextA],
     [role |-> "assistant", content |-> TextB]>>}

JsSchemas ==
  {<<[name |-> <<"n">>, type |-> "number", description |-> <<>>]>>}

InitJs ==
  /\ settings \in {[JsDefaultSettings EXCEPT !.useRag = u, !.ragNumResults = 1] :
                     u \in BOOLEAN}
  /\ llm = [eos |-> 1]
  /\ \E docs \in {<<>>, <<TextB, TextA>>} : JsConstructed(docs)
  /\ probe = NoProbe

NextJs ==
  \/ \E q \in Queries : JsCallRag(q)
  \/ \E context \in {<<>>, LongText} : JsCallQuery(TextA, context)
  \/ \E conversation \in JsConversations : JsCallChat(conversation)
  \/ JsCallGenerate(TextA)
  \/ \E schema \in JsSchemas : JsCallExtract(schema, TextA, <<>>)
  \/ \E i \in 1..MaxCalls : JsExtractLoop(i)
  \/ \E i \in 1..MaxCalls : JsAwaitRag(i)
  \/ \E i \in 1..MaxCalls : JsAwaitInit(i)
  \/ \E i \in 1..MaxCalls : JsModelLoaded(i)
  \/ \E i \in 1..MaxCalls : JsEmbedDocument(i)
  \/ \E i \in 1..MaxCalls : JsAssignEmbeddings(i)
  \/ \E i \in 1..MaxCalls : JsRankStored(i)
  \/ \E i \in 1..MaxCalls : JsRankContext(i)
  \/ \E i \in 1..MaxCalls : JsGenerate(i)

SpecJs == InitJs /\ [][NextJs]_vars

----------------------------------------------------------------------------
(* Claims about the similarity ranker, checked under SpecRetrieval *)

Ranked == probe.op = "retrieval" /\ probe.pc = "done"

\* the similarity of the i-th ranked embedding to the query
ProbeSim(i) == cosineSimilarity(probe.queryVectors, probe.embeddings[i])

ClearsThreshold(i) == SimGeq(ProbeSim(i), settings.ragSimilarityThreshold)

RetainedSet == {i \in 1..Len(probe.embeddings) : ClearsThreshold(i)}

ReturnedSet == {probe.indices[k] : k \in 1..Len(probe.indices)}

\* C3: retrieval returns at most ragNumResults chunk texts, one per kept
\* index, and every returned chunk's similarity to the query is
\* >= ragSimilarityThreshold; the result is empty when no chunk clears it.
C3_AtMostLimitAndAboveThreshold ==
  Ranked =>
    /\ Len(probe.result) <= settings.ragNumResults
    /\ Len(probe.result) = Len(probe.indices)
    /\ \A k \in 1..Len(probe.indices) :
         /\ probe.indices[k] \in 1..Len(probe.embeddings)
         /\ ClearsThreshold(probe.indices[k])
         /\ probe.result[k] = probe.docs[probe.indices[k]]
    /\ (RetainedSet = {} => probe.result = <<>>)

\* more chunks clear the threshold than the limit allows, and one does not
C3_Witness ==
  /\ Ranked
  /\ Len(probe.result) = settings.ragNumResults
  /\ Cardinality(RetainedSet) > settings.ragNumResults
  /\ \E i \in 1..Len(probe.embeddings) : ~ClearsThreshold(i)

\* C4: the returned chunks are in non-increasing order of similarity, and
\* they are the ragNumResults highest-scoring chunks that clear the
\* threshold: no retained chunk left out scores strictly higher than a
\* returned one.
C4_DescendingTopN ==
  Ranked =>
    /\ \A k \in 1..(Len(probe.indices) - 1) :
         SimGeq(ProbeSim(probe.indices[k]), ProbeSim(probe.indices[k + 1]))
    /\ ReturnedSet \subseteq RetainedSet
    /\ Cardinality(ReturnedSet) = Len(probe.indices)
    /\ Len(probe.indices) = Min(settings.ragNumResults, Cardinality(RetainedSet))
    /\ \A j \in RetainedSet \ ReturnedSet : \A i \in ReturnedSet :
         ~SimGt(ProbeSim(j), ProbeSim(i))
    /\ probe.result = [k \in 1..Len(probe.indices) |-> probe.docs[probe.indices[k]]]

\* a later chunk outscores an earlier one, and a retained chunk is cut off
C4_Witness ==
  /\ Ranked
  /\ Len(probe.indices) = 2
  /\ probe.indices[1] > probe.indices[2]
  /\ SimGt(ProbeSim(probe.indices[1]), ProbeSim(probe.indices[2]))
  /\ RetainedSet \ ReturnedSet # {}

----------------------------------------------------------------------------
(* Claims about the chunker, checked under SpecChunk *)

Chunked == probe.op = "chunkDocument" /\ probe.pc # "call"

Rechunked == probe.op = "chunkDocument" /\ probe.pc = "rechunked"

TokenCount(text) == Len(tokenizer(text))

\* C8: chunk(d) = [d], d unchanged, whenever chunking is disabled or d
\* tokenizes to at most 512 tokens, blank lines in d or not.
C8_ShortDocumentUnchanged ==
  (Chunked /\ (~settings.contextChunking \/ TokenCount(probe.context) <= maxLength))
    => probe.chunks = <<probe.context>>

HasBlankLine(text) == FirstSeparator(text, 1) # 0

\* a document of exactly 512 tokens with a blank line in it, chunking enabled
C8_Witness ==
  /\ Chunked
  /\ settings.contextChunking
  /\ TokenCount(probe.context) = maxLength
  /\ HasBlankLine(probe.context)
  /\ probe.chunks = <<probe.context>>

\* C9: for every chunk c of chunk(d), a chunk decoded from a 512-token
\* window of an oversized paragraph included, chunk(c) = [c].
C9_RechunkIsIdentity ==
  Rechunked =>
    \A i \in 1..Len(probe.chunks) : probe.again[i] = <<probe.chunks[i]>>

\* C10, on an instance that chunks (contextChunking, the default): every
\* chunk of chunk(text) tokenizes to at most 512 tokens.
C10_ChunksWithinBudget ==
  (Chunked /\ settings.contextChunking) =>
    \A i \in 1..Len(probe.chunks) : TokenCount(probe.chunks[i]) <= maxLength

----------------------------------------------------------------------------
(* Claims about the embedding store and rag, checked under Spec *)

InitializationStarted ==
  \E i \in 1..Len(tasks) : tasks[i].op = "initializeEmbeddings"

\* C1, on an instance whose embedding model is loaded: once an
\* initialization has started, at every await of initialization,
\* re-initialization and any later operation, the number of stored chunks
\* equals the number of stored embeddings.
C1_ChunksMatchEmbeddings ==
  (embeddingModel /\ InitializationStarted)
    => Len(documents) = Len(documentEmbeddings.v)

\* C2: no retrieval ranks the chunk array of one generation against the
\* embedding array of another: whenever rag or query hands the stored
\* arrays to retrieval, the embeddings are those of these very chunks.
C2_RanksOneGeneration ==
  \A i \in 1..Len(tasks) :
    tasks[i].ranked =>
      /\ tasks[i].docsGen = tasks[i].embsGen
      /\ tasks[i].embs = [d \in 1..Len(tasks[i].docs) |-> Embed(tasks[i].docs[d])]

\* C5: on an instance with no stored chunk, every rag(query) has returned
\* the empty sequence, with useRag enabled or not and with the embedding
\* model loaded or not, without a call to the embedding model and without
\* an error.
C5_RagWithoutDocumentsIsEmpty ==
  Len(documents) = 0 =>
    \A i \in 1..Len(tasks) :
      tasks[i].op = "rag" =>
        /\ tasks[i].pc = "done"
        /\ tasks[i].chunks = <<>>
        /\ tasks[i].error = ""
        /\ tasks[i].embedCalls = 0

\* rag was called with useRag enabled, nothing stored and no embedding
\* model, after an initialization without documents
C5_Witness ==
  /\ Len(documents) = 0
  /\ settings.useRag
  /\ ~embeddingModel
  /\ \E i \in 1..Len(tasks) : tasks[i].op = "rag" /\ tasks[i].pc = "done"
  /\ InitializationStarted

----------------------------------------------------------------------------
(* Claims about chat, checked under SpecChat *)

IsChat(i) == i \in 1..Len(tasks) /\ tasks[i].op = "chat"

HasUserMessage(conversation) ==
  \E k \in 1..Len(conversation) : conversation[k].role = "user"

\* C6: chat on a conversation without a message of role user, the empty
\* conversation included, returns the sentinel string, does not throw, and
\* calls neither the embedding model nor the generation model.
C6_NoUserMessageSentinel ==
  \A i \in 1..Len(tasks) :
    (IsChat(i) /\ ~HasUserMessage(tasks[i].conversation)) =>
      /\ tasks[i].pc = "done"
      /\ tasks[i].text = NoUserMessage
      /\ tasks[i].error = ""
      /\ tasks[i].embedCalls = 0
      /\ tasks[i].generateCalls = 0

\* a chat of a non-empty conversation without a user message has returned,
\* on an instance that holds documents and retrieves
C6_Witness ==
  /\ IsChat(1)
  /\ Len(tasks[1].conversation) = 2
  /\ ~HasUserMessage(tasks[1].conversation)
  /\ tasks[1].pc = "done"
  /\ settings.useRag
  /\ Len(documents) > 0

\* C7: with at least one user message, the query chat passes on is made of
\* the content of the user message of highest index, and the context is
\* made of all other messages, in their order, each once, without the
\* selected one; earlier user messages stay in it.
C7_LastUserMessageIsQuery ==
  \A i \in 1..Len(tasks) :
    (IsChat(i) /\ HasUserMessage(tasks[i].conversation)) =>
      LET conv == tasks[i].conversation
      IN  \E u \in 1..Len(conv) :
            /\ conv[u].role = "user"
            /\ \A k \in (u + 1)..Len(conv) : conv[k].role # "user"
            /\ tasks[i].query = <<"user", ":", " ">> \o conv[u].content
            /\ tasks[i].context =
                 Join([k \in 1..(Len(conv) - 1) |->
                         LET m == conv[IF k < u THEN k ELSE k + 1]
                         IN  <<m.role, ":", " ">> \o m.content],
                      <<NL>>)

\* two user messages with different contents, the last one followed by an
\* answer; the query has been answered
C7_Witness ==
  /\ IsChat(1)
  /\ Len(tasks[1].conversation) = 3
  /\ tasks[1].conversation[1] = [role |-> "user", content |-> TextA]
  /\ tasks[1].conversation[2] = [role |-> "user", content |-> TextB]
  /\ tasks[1].conversation[3].role = "assistant"
  /\ tasks[1].pc = "done"
  /\ tasks[1].generateCalls = 1

----------------------------------------------------------------------------
(* Claims about the coercions of extract, checked under SpecParse *)

Parsed(type) == probe.op = "parse" /\ probe.pc = "done" /\ probe.type = type

\* the maximal runs of word characters of a text, in lower case
WordsOf(text) ==
  {[k \in 1..(j - i + 1) |-> LowerCase(text[i + k - 1])] :
     <<i, j>> \in {x \in (1..Len(text)) \X (1..Len(text)) :
                    /\ x[1] <= x[2]
                    /\ \A k \in x[1]..x[2] : IsWordChar(text[k])
                    /\ (x[1] = 1 \/ ~IsWordChar(text[x[1] - 1]))
                    /\ (x[2] = Len(text) \/ ~IsWordChar(text[x[2] + 1]))}}

\* C14: the value of a boolean field is true if a word of the answer is
\* yes or true, in any case; otherwise false if a word of it is no or
\* false; otherwise null.  An answer with an affirmative and a negative
\* word gives true; a longer word that contains these letters matches
\* neither.
C14_BooleanByWholeWord ==
  Parsed("boolean") =>
    probe.value =
      IF WordsOf(probe.answer) \cap Affirmative # {} THEN Bool(TRUE)
      ELSE IF WordsOf(probe.answer) \cap Negative # {} THEN Bool(FALSE)
      ELSE Null

\* an answer with a negative word, then an affirmative one, gave true
C14_Witness ==
  /\ Parsed("boolean")
  /\ probe.answer = <<"n", "o", " ", "Y", "e", "s">>
  /\ probe.value = Bool(TRUE)

\* the digits and dots of a text, in their order
DigitsAndDots(text) ==
  LET P == {i \in 1..Len(text) : IsNumericChar(text[i])}
  IN  [k \in 1..Cardinality(P) |->
         text[CHOOSE i \in P : Cardinality({j \in P : j <= i}) = k]]

\* C15: the value of a number field is null when the answer has no digit
\* and no '.', and otherwise the number that the answer without its other
\* characters denotes: "$2500" gives 2500, a sign or an exponent mark is
\* dropped.
C15_NumberFromDigitsAndDots ==
  Parsed("number") =>
    /\ (probe.value = Null) =
         (\A i \in 1..Len(probe.answer) : ~IsNumericChar(probe.answer[i]))
    /\ probe.value # Null =>
         probe.value = ToNumber(DigitsAndDots(probe.answer))
    /\ probe.answer = <<"$", "2", "5", "0", "0">> =>
         probe.value = Num(<<"2", "5", "0", "0">>, <<>>)
    /\ probe.answer = <<"-", "5">> => probe.value = Num(<<"5">>, <<>>)
    /\ probe.answer = <<"1", "e", "3">> => probe.value = Num(<<"1", "3">>, <<>>)
    /\ probe.answer = <<"2", ".", "5">> => probe.value = Num(<<"2">>, <<"5">>)

\* "$2500" after a word gave the number 2500
C15_Witness ==
  /\ Parsed("number")
  /\ probe.answer = <<"o", "k", " ", "$", "2", "5", "0", "0">>
  /\ probe.value = Num(<<"2", "5", "0", "0">>, <<>>)

----------------------------------------------------------------------------
(* Claims about query, generate and extract, checked under SpecCall *)

IsQuery(i) == i \in 1..Len(tasks) /\ tasks[i].op = "query"

\* C11: when query reaches its second pass, the running context is the
\* retrieved chunks joined by a blank line, then a newline and the caller's
\* context if that is not empty; and it is exactly the caller's context,
\* without a leading separator, when nothing was retrieved.
C11_RunningContext ==
  \A i \in 1..Len(tasks) :
    (IsQuery(i) /\ tasks[i].secondPass) =>
      tasks[i].runningContext =
        IF tasks[i].ragContext = <<>> THEN tasks[i].context
        ELSE Join(tasks[i].ragContext, <<NL, NL>>)
               \o (IF tasks[i].context # <<>> THEN <<NL>> \o tasks[i].context
                   ELSE <<>>)

\* C12: on an instance created with useRag disabled and contextChunking
\* enabled, a query whose context chunks into more than ragNumResults
\* chunks performs the second retrieval pass over them: it asks for their
\* embeddings and does not fail for lack of an embedding model.
C12_SecondPassWithoutRag ==
  \A i \in 1..Len(tasks) :
    ( /\ IsQuery(i)
      /\ ~settings.useRag
      /\ settings.contextChunking
      /\ Len(chunkDocument(tasks[i].context)) > settings.ragNumResults )
    => /\ tasks[i].error # "Embedding model not initialized"
       /\ tasks[i].embedCalls > 0

IsExtract(i) == i \in 1..Len(tasks) /\ tasks[i].op = "extract"

\* C13: a failure while one field of the schema is resolved does not abort
\* extract: extract does not fail, and it returns a value for every field
\* of the schema (null for the field whose query failed).
C13_ExtractSurvivesFieldFailure ==
  \A i \in 1..Len(tasks) :
    IsExtract(i) =>
      /\ tasks[i].pc # "failed"
      /\ tasks[i].pc = "done" => Len(tasks[i].result) = Len(tasks[i].schema)

\* generate has been called and the generation model has resolved
Generated(i) ==
  i \in 1..Len(tasks) /\ tasks[i].op = "generate" /\ tasks[i].output # NoOutput

\* C16: generate returns the model's text, trimmed; when the model resolves
\* to an empty list, to a result without generated_text or to an empty or
\* blank text, generate returns the empty string: it does not throw and
\* does not return an error message.
C16_GenerateTrimmedOrEmpty ==
  \A i \in 1..Len(tasks) :
    Generated(i) =>
      /\ tasks[i].pc = "done"
      /\ tasks[i].error = ""
      /\ tasks[i].text =
           IF tasks[i].output.results > 0 /\ tasks[i].output.hasText
           THEN Trim(tasks[i].output.generated_text)
           ELSE <<>>

\* C18: on an initialized instance, every step of a call to rag, generate,
\* query, chat or extract, the failing ones included, leaves the stored
\* chunks, the stored embeddings and the settings as they were.
C18_CallsLeaveStoreUnchanged ==
  [][ /\ documents' = documents
      /\ documentEmbeddings' = documentEmbeddings
      /\ settings' = settings ]_vars

\* an extract over two fields has returned, after a second pass over its
\* context, on an instance that holds two chunks and their embeddings
C18_Witness ==
  /\ IsExtract(1)
  /\ tasks[1].pc = "done"
  /\ Len(tasks[1].result) = 2
  /\ tasks[1].embedCalls > 2
  /\ Len(documents) = 2
  /\ documentEmbeddings = [def |-> TRUE, v |-> <<Embed(TextB), Embed(TextA)>>]

----------------------------------------------------------------------------
(* Claims about cosine similarity, checked under SpecCosine *)

Compared == probe.op = "cosine" /\ probe.pc = "done"

SimEq(s, t) == SimGeq(s, t) /\ SimGeq(t, s)

SquaredNorm(v) == SumProducts(v.data, v.data, Len(v.data))

\* the cases of the claim: not an array, different lengths, an empty
\* vector, a zero norm
Malformed(a, b) ==
  \/ ~a.isArray
  \/ ~b.isArray
  \/ Len(a.data) # Len(b.data)
  \/ a.data = <<>>
  \/ b.data = <<>>
  \/ SquaredNorm(a) * SquaredNorm(b) = 0

\* C19: cosine similarity is 0 when an argument is not an array, when the
\* lengths differ, when a vector is empty and when the product of the norms
\* is zero; so a malformed stored embedding is retrieved only under a
\* threshold <= 0.
C19_MalformedScoresZero ==
  (Compared /\ Malformed(probe.vecA, probe.vecB)) =>
    /\ SimEq(probe.ab, Zero)
    /\ probe.kept # <<>> => SimGeq(Zero, settings.ragSimilarityThreshold)

\* an embedding of another length than the query vector scored 0 and was
\* retrieved under the threshold 0
C19_Witness ==
  /\ Compared
  /\ probe.vecA = Vec(<<1, 0>>)
  /\ probe.vecB = Vec(<<1>>)
  /\ probe.ab = Zero
  /\ probe.kept = <<1>>
  /\ settings.ragSimilarityThreshold = <<0, 1, 0>>

\* C20: for arrays a and b of the same length, sim(a, b) = sim(b, a),
\* -1 <= sim(a, b) <= 1, and sim(a, a) = 1 when the norm of a is not zero.
C20_SymmetricBoundedReflexive ==
  (Compared /\ probe.vecA.isArray /\ probe.vecB.isArray
     /\ Len(probe.vecA.data) = Len(probe.vecB.data)) =>
    /\ SimEq(probe.ab, probe.ba)
    /\ SimGeq(probe.ab, <<-1, 1, 0>>)
    /\ SimGeq(One, probe.ab)
    /\ SquaredNorm(probe.vecA) > 0 => SimEq(probe.aa, One)

----------------------------------------------------------------------------
(* Claims about embedding without a model, checked under SpecJs *)

NotInitialized ==
  {"Embedding model not initialized",
   "Document embeddings or embedding model not initialized"}

\* C17: a call that asks for an embedding while no embedding model is
\* loaded fails, and with the error that says the model is not initialized
C17_NoModelIsNotInitializedError ==
  \A i \in 1..Len(tasks) :
    tasks[i].noModel =>
      /\ tasks[i].pc = "failed"
      /\ tasks[i].error \in NotInitialized

----------------------------------------------------------------------------
(* Claims about the loop of extract, checked under SpecCall *)

\* C21: extract issues the queries of the schema's fields in schema order,
\* one per field; the query of a field is issued only when the generation
\* call of the field before it has returned and its value is stored, each
\* query makes at most one generation call, and when extract returns it
\* has issued one query and one generation call per field and the keys of
\* the result are the names of the schema's fields.
C21_OneQueryPerFieldInOrder ==
  \A i \in 1..Len(tasks) :
    IsExtract(i) =>
      LET t == tasks[i]
      IN  /\ Len(t.queries) <= Len(t.schema)
          /\ t.queries = [k \in 1..Len(t.queries) |-> FieldQuery(t.schema[k])]
          /\ Len(t.result) <= Len(t.queries)
          /\ Len(t.queries) <= Len(t.result) + 1
          /\ t.generateCalls <= Len(t.queries)
          /\ t.generateCalls >= Len(t.result)
          /\ t.pc = "generate" => t.generateCalls = Len(t.queries)
          /\ t.pc = "done" =>
                /\ Len(t.queries) = Len(t.schema)
                /\ t.generateCalls = Len(t.schema)
                /\ [k \in 1..Len(t.result) |-> t.result[k].name]
                     = [k \in 1..Len(t.schema) |-> t.schema[k].name]

\* an extract over two fields, one of them described, has returned after
\* two generation calls
C21_Witness ==
  /\ IsExtract(1)
  /\ tasks[1].pc = "done"
  /\ Len(tasks[1].schema) = 2
  /\ tasks[1].generateCalls = 2
  /\ \E k \in 1..2 : tasks[1].schema[k].description # <<>>

----------------------------------------------------------------------------
(* Claims about the initialization the constructor starts, checked under
   SpecJs *)

\* C22: on an instance constructed with useRag and documents, a rag called
\* at any time after the constructor has returned does not fail, and what
\* it ranks is a defined embedding array with one embedding per stored
\* chunk.
C22_RagReadsCompleteEmbeddings ==
  \A i \in 1..Len(tasks) :
    (tasks[i].op = "rag" /\ settings.useRag /\ Len(documents) > 0) =>
      /\ tasks[i].pc # "failed"
      /\ tasks[i].pc \in {"jsEmbedQuery", "done"} =>
            /\ tasks[i].embsDef
            /\ Len(tasks[i].embs) = Len(documents)

\* C28: over the life of an instance _initializeEmbeddings runs at most
\* once, the run the constructor starts included: the embedding model is
\* loaded at most once, the stored chunks are embedded at most once, and
\* no call starts an initialization while another is in progress.
C28_InitializedAtMostOnce ==
  /\ Cardinality({i \in 1..Len(tasks) : tasks[i].initCalls > 0}) <= 1
  /\ Cardinality({i \in 1..Len(tasks) :
                    tasks[i].pc \in {"jsLoadModel", "jsEmbedDocs", "jsAssign"}}) <= 1

----------------------------------------------------------------------------
(* Claims about the chunks of a long document, checked under SpecChunk *)

\* the number of chunks a paragraph of n tokens gives
ChunkCount(n) ==
  IF n <= maxLength THEN 1 ELSE (n + maxLength - 1) \div maxLength

RECURSIVE ChunksBefore(_, _)
\* the number of chunks the paragraphs before the p-th give
ChunksBefore(paragraphs, p) ==
  IF p = 1 THEN 0
  ELSE ChunksBefore(paragraphs, p - 1) + ChunkCount(TokenCount(paragraphs[p - 1]))

\* C23: for a document of more than 512 tokens on an instance that chunks,
\* chunk(d) lists, paragraph after paragraph of d split on blank lines,
\* the paragraph itself when it has at most 512 tokens (the empty
\* paragraph included), and otherwise its ceil(n/512) windows decoded:
\* window w is tokens 512(w-1)+1 to min(512w, n) of its n tokens.
C23_ChunksAreParagraphsOrWindows ==
  (Chunked /\ settings.contextChunking /\ TokenCount(probe.context) > maxLength)
    => LET paragraphs == SplitParagraphs(probe.context)
       IN  /\ Join(paragraphs, <<NL, NL>>) = probe.context
           /\ \A p \in 1..Len(paragraphs) : ~HasBlankLine(paragraphs[p])
           /\ Len(probe.chunks) = ChunksBefore(paragraphs, Len(paragraphs) + 1)
           /\ \A p \in 1..Len(paragraphs) :
                LET tokens == tokenizer(paragraphs[p])
                    n == Len(tokens)
                    before == ChunksBefore(paragraphs, p)
                IN  IF n <= maxLength
                    THEN probe.chunks[before + 1] = paragraphs[p]
                    ELSE \A w \in 1..ChunkCount(n) :
                           LET first == maxLength * (w - 1) + 1
                               last == IF maxLength * w < n THEN maxLength * w ELSE n
                           IN  /\ first <= last
                               /\ last - first + 1 <= maxLength
                               /\ probe.chunks[before + w]
                                    = decode(SubSeq(tokens, first, last))

\* a paragraph of 513 words and an empty paragraph: two windows, the
\* second not full, and an empty chunk
C23_Witness ==
  /\ Chunked
  /\ settings.contextChunking
  /\ llm.eos = 0
  /\ probe.context = TwoParagraphs(maxLength + 1, 0)
  /\ probe.chunks = <<Rep("a", maxLength), <<"a">>, <<>>>>

----------------------------------------------------------------------------
(* Claims about the second pass of query, checked under SpecCall *)

\* the condition of lines 731-733 on the arguments of query i
ContextPassDue(i) ==
  /\ settings.contextChunking
  /\ tasks[i].context # <<>>
  /\ Len(chunkDocument(tasks[i].context)) > settings.ragNumResults

\* the chunks of the context of query i, ranked against its query
ContextRanked(i) ==
  LET chunks == chunkDocument(tasks[i].context)
  IN  Rank(Embed(tasks[i].query), chunks,
           [c \in 1..Len(chunks) |-> Embed(chunks[c])])

\* C24: once query is past rag, it asks for the embeddings of the chunks
\* of its context exactly when chunking is enabled, the context is not
\* empty and it has more chunks than ragNumResults. The context of the
\* prompt it then builds is the running context, a blank line and the
\* ranked chunks joined by blank lines; without the second pass it is the
\* running context, and only rag over stored documents has embedded
\* anything.
C24_SecondPassWhenDueAndAppended ==
  \A i \in 1..Len(tasks) :
    (IsQuery(i) /\ tasks[i].secondPass) =>
      LET t == tasks[i]
      IN  /\ t.contextPass <=> ContextPassDue(i)
          /\ (t.generateCalls > 0 /\ ContextPassDue(i)) =>
                t.fullContext = t.runningContext \o <<NL, NL>>
                                  \o Join(ContextRanked(i), <<NL, NL>>)
          /\ ~ContextPassDue(i) =>
                /\ t.fullContext = t.runningContext
                /\ t.embedCalls =
                     IF settings.useRag /\ Len(documents) > 0 THEN 1 ELSE 0

\* a query over stored documents and a context of three chunks has built
\* its prompt after a second pass that kept a chunk
C24_Witness ==
  /\ IsQuery(1)
  /\ Len(documents) > 0
  /\ tasks[1].ragContext # <<>>
  /\ tasks[1].contextPass
  /\ tasks[1].generateCalls > 0
  /\ ContextRanked(1) # <<>>
  /\ tasks[1].fullContext # tasks[1].runningContext

\* C25: on an instance with useRag disabled, a query whose context chunks
\* into at most ragNumResults chunks asks for no embedding and makes one
\* generation call, with the prompt context, newline, systemPrompt,
\* newline, query and with max_new_tokens set to maxContextLength.
C25_PlainQueryPrompt ==
  \A i \in 1..Len(tasks) :
    ( /\ IsQuery(i)
      /\ ~settings.useRag
      /\ Len(chunkDocument(tasks[i].context)) <= settings.ragNumResults )
    => /\ tasks[i].embedCalls = 0
       /\ ~tasks[i].contextPass
       /\ tasks[i].generateCalls = 1
       /\ tasks[i].inputText = tasks[i].context \o <<NL>> \o tasks[i].systemPrompt
                                  \o <<NL>> \o tasks[i].query
       /\ tasks[i].maxNewTokens = settings.maxContextLength

\* such a query with a context, a system prompt of its own and a budget
\* of 16 new tokens has returned
C25_Witness ==
  /\ IsQuery(1)
  /\ ~settings.useRag
  /\ settings.contextChunking
  /\ settings.maxContextLength = 16
  /\ tasks[1].context = TextB
  /\ tasks[1].systemPrompt # DEFAULT_SYSTEM_PROMPT
  /\ tasks[1].pc = "done"
  /\ tasks[1].generateCalls = 1

----------------------------------------------------------------------------
(* Claims about the values of number fields, checked under SpecParse *)

\* C26: whatever the answer, the value stored for a number field is null
\* or a number that is not negative; it is never NaN.
C26_NumberIsNullOrNonNegative ==
  Parsed("number") =>
    \/ probe.value = Null
    \/ /\ probe.value.kind = "number"
       /\ ~probe.value.negative

----------------------------------------------------------------------------
(* Claims about the prompts of extract, checked under SpecCall *)

\* C27: in an extract over stored documents, the prompt of a field holds
\* the chunks rag returned to extract and the chunks rag returned to the
\* query of the field, and no stored chunk is among both.
C27_NoChunkTwiceInPrompt ==
  \A i \in 1..Len(tasks) :
    ( /\ IsExtract(i)
      /\ settings.useRag
      /\ Len(documents) > 0
      /\ tasks[i].pc = "generate" )
    => LET t == tasks[i]
       IN  /\ t.context = Join(t.chunks, <<NL>>)
                 \o (IF t.extractionContext = Join(t.chunks, <<NL>>) THEN <<>>
                     ELSE SubSeq(t.extractionContext,
                                 Len(Join(t.chunks, <<NL>>)) + 1,
                                 Len(t.extractionContext)))
           /\ \A j \in 1..Len(t.chunks) : \A k \in 1..Len(t.ragContext) :
                t.chunks[j] # t.ragContext[k]

=============================================================================
